---------------------------- MODULE Spec2Model ----------------------------
(***************************************************************************)
(* A model of the Cloud Run deploy service of moltbook-api                 *)
(* (src/src/services/CloudRunDeployService.js): template load, override    *)
(* merge, validation, transport shaping and the create-or-update           *)
(* reconciliation against the remote control plane.                        *)
(*                                                                         *)
(* JavaScript values are one-field records [tag |-> v]; strings are sequences of   *)
(* one-character strings, so that trim, includes, the regular expressions   *)
(* and string concatenation are computed and not assumed.  Objects live in *)
(* a heap of nodes addressed by references, so that structuredClone, the   *)
(* spread copy and in-place assignment keep their aliasing behaviour.      *)
(*                                                                         *)
(* Two further parts model the agent registration route, which starts a    *)
(* deployment in the background (src/src/routes/marketplace.js), and the   *)
(* purchase transaction of the marketplace (MarketplaceService.buyListing).*)
(***************************************************************************)
EXTENDS Integers, Sequences, FiniteSets, TLC

VARIABLES
    env,      \* process.env: GCP_PROJECT_ID and GCP_REGION
    file,     \* what readFileSync / yaml.load find at TEMPLATE_PATH
    remote,   \* the control plane: the services it holds
    calls,    \* per deploy call: the locals of deploy() and where it is suspended
    registrations, \* per POST /agents/register request: the handler and its deploy task
    db,       \* the agents, listings and orders tables and their row locks
    purchases \* per buyListing call: the locals of the transaction and where it waits

vars == <<env, file, remote, calls, registrations, db, purchases>>

(***************************************************************************)
(* JavaScript values                                                       *)
(***************************************************************************)
Undef   == [undef |-> 0]
Null    == [null |-> 0]
NaN     == [nan |-> 0]
Str(s)  == [str |-> s]
Num(n)  == [num |-> n]
Bool(b) == [bool |-> b]
Obj(r)  == [obj |-> r]
Arr(s)  == [arr |-> s]
Ref(i)  == [ref |-> i]

\* the tag of a value
T(x) == CHOOSE k \in DOMAIN x : TRUE

EmptyRec == [f \in {} |-> Undef]

\* x == null  (true of null and undefined)
IsNullish(x) == T(x) \in {"undef", "null"}

\* the ToBoolean conversion behind !x, x || y, x && y, Boolean(x)
Truthy(x) ==
    CASE T(x) = "undef" -> FALSE
      [] T(x) = "null"  -> FALSE
      [] T(x) = "nan"   -> FALSE
      [] T(x) = "str"   -> Len(x.str) > 0
      [] T(x) = "num"   -> x.num # 0
      [] T(x) = "bool"  -> x.bool
      [] OTHER         -> TRUE

\* a || b   and   a ?? b
OrElse(a, b)    == IF Truthy(a) THEN a ELSE b
Coalesce(a, b)  == IF IsNullish(a) THEN b ELSE a

(***************************************************************************)
(* Strings                                                                 *)
(***************************************************************************)
Digits     == {"0", "1", "2", "3", "4", "5", "6", "7", "8", "9"}
LowerCase  == {"a", "b", "c", "d", "e", "f", "g", "h", "i", "j", "k", "l", "m",
               "n", "o", "p", "q", "r", "s", "t", "u", "v", "w", "x", "y", "z"}
WhiteSpace == {" ", "\t", "\n"}

DigitChar(d) ==
    CASE d = 0 -> "0" [] d = 1 -> "1" [] d = 2 -> "2" [] d = 3 -> "3"
      [] d = 4 -> "4" [] d = 5 -> "5" [] d = 6 -> "6" [] d = 7 -> "7"
      [] d = 8 -> "8" [] d = 9 -> "9"

DigitVal(c) == CHOOSE d \in 0..9 : DigitChar(d) = c

RECURSIVE NatToStr(_)
NatToStr(n) == IF n < 10 THEN <<DigitChar(n)>>
               ELSE NatToStr(n \div 10) \o <<DigitChar(n % 10)>>

RECURSIVE StrToNat(_)
StrToNat(s) == IF Len(s) = 0 THEN 0
               ELSE 10 * StrToNat(SubSeq(s, 1, Len(s) - 1)) + DigitVal(s[Len(s)])

AllIn(s, chars) == \A i \in 1..Len(s) : s[i] \in chars

RECURSIVE TrimStart(_)
TrimStart(s) == IF Len(s) > 0 /\ s[1] \in WhiteSpace THEN TrimStart(Tail(s)) ELSE s

RECURSIVE TrimEnd(_)
TrimEnd(s) == IF Len(s) > 0 /\ s[Len(s)] \in WhiteSpace
              THEN TrimEnd(SubSeq(s, 1, Len(s) - 1)) ELSE s

\* String.prototype.trim
Trim(s) == TrimEnd(TrimStart(s))

\* String.prototype.includes
Includes(s, part) ==
    \E i \in 0..(Len(s) - Len(part)) : SubSeq(s, i + 1, i + Len(part)) = part

\* String(x)
JsString(x) ==
    CASE T(x) = "str"   -> x.str
      [] T(x) = "num"   -> IF x.num < 0 THEN <<"-">> \o NatToStr(-x.num) ELSE NatToStr(x.num)
      [] T(x) = "nan"   -> <<"N", "a", "N">>
      [] T(x) = "bool"  -> IF x.bool THEN <<"t", "r", "u", "e">>
                                 ELSE <<"f", "a", "l", "s", "e">>
      [] T(x) = "null"  -> <<"n", "u", "l", "l">>
      [] T(x) = "undef" -> <<"u", "n", "d", "e", "f", "i", "n", "e", "d">>
      [] OTHER         -> <<"[", "o", "b", "j", "e", "c", "t", "]">>

\* Number(x), for the values a JSON body can carry (decimal integers only)
ToNumber(x) ==
    CASE T(x) = "num"   -> x
      [] T(x) = "nan"   -> NaN
      [] T(x) = "null"  -> Num(0)
      [] T(x) = "bool"  -> Num(IF x.bool THEN 1 ELSE 0)
      [] T(x) = "str"   ->
           LET s == Trim(x.str) IN
           IF Len(s) = 0 THEN Num(0)
           ELSE IF AllIn(s, Digits) THEN Num(StrToNat(s))
           ELSE IF s[1] = "-" /\ Len(s) > 1 /\ AllIn(Tail(s), Digits)
                THEN Num(-StrToNat(Tail(s)))
           ELSE NaN
      [] OTHER         -> NaN

\* Number.isInteger(x)
IsInteger(x) == T(x) = "num"

(***************************************************************************)
(* The heap: a sequence of object nodes.  A document tree (Obj / Arr /     *)
(* primitives) becomes a graph of nodes whose object-valued properties are *)
(* references; arrays are kept as values holding references.               *)
(***************************************************************************)
\* statements run in order: x is computed before what follows it
Computed(x) == x = x

RECURSIVE Alloc(_, _)
RECURSIVE AllocFields(_, _, _, _)
RECURSIVE AllocField(_, _, _, _, _)
RECURSIVE AllocElems(_, _, _, _)
RECURSIVE AllocFieldDone(_, _, _, _, _)
RECURSIVE AllocElemDone(_, _, _, _)

\* a new node with the given properties: the new heap and the reference to it
NewNode(r) == [h |-> Append(r.h, Obj(r.v)), v |-> Ref(Len(r.h) + 1)]

NewArray(r) == [h |-> r.h, v |-> Arr(r.v)]

\* builds the object graph of a tree; returns the new heap and the value for it
Alloc(h, tree) ==
    CASE T(tree) = "obj" -> NewNode(AllocFields(h, tree.obj, DOMAIN tree.obj, EmptyRec))
      [] T(tree) = "arr" -> NewArray(AllocElems(h, tree.arr, 1, <<>>))
      [] OTHER -> [h |-> h, v |-> tree]

AllocFields(h, rec, todo, done) ==
    IF todo = {} THEN [h |-> h, v |-> done]
    ELSE AllocField(h, rec, todo, done, CHOOSE g \in todo : TRUE)

AllocField(h, rec, todo, done, f) ==
    AllocFieldDone(Alloc(h, rec[f]), rec, todo \ {f}, done, f)

AllocElems(h, elems, i, done) ==
    IF i > Len(elems) THEN [h |-> h, v |-> done]
    ELSE AllocElemDone(Alloc(h, elems[i]), elems, i, done)

AllocFieldDone(r, rec, todo, done, f) ==
    CASE Computed(r) ->
        AllocFields(r.h, rec, todo, done @@ (f :> r.v))

AllocElemDone(r, elems, i, done) ==
    CASE Computed(r) ->
        AllocElems(r.h, elems, i + 1, Append(done, r.v))

\* the tree a value stands for in a heap (what a serialisation of it shows)
RECURSIVE Read(_, _)
Read(h, x) ==
    CASE T(x) = "ref" -> Obj([f \in DOMAIN h[x.ref].obj |-> Read(h, h[x.ref].obj[f])])
      [] T(x) = "arr" -> Arr([i \in 1..Len(x.arr) |-> Read(h, x.arr[i])])
      [] OTHER -> x

\* a copy that is no copy: the same graph under another name
SameGraph(h, x) == [h |-> h, v |-> x]

\* structuredClone(x): a fresh graph with the same tree
StructuredClone(h, x) == Alloc(h, Read(h, x))

\* { ...x, f: val }: a fresh node sharing every property value of x
\* a copy that keeps nothing but the added field
SpreadNothing(h, x, f, val) ==
    [h |-> Append(h, Obj([g \in {f} |-> val])), v |-> Ref(Len(h) + 1)]

SpreadWith(h, x, f, val) ==
    LET n == h[x.ref].obj
    IN  [h |-> Append(h, Obj([g \in DOMAIN n \cup {f} |-> IF g = f THEN val ELSE n[g]])),
         v |-> Ref(Len(h) + 1)]

\* x.f  (x?.f when x may be undefined)
Get(h, x, f) ==
    IF T(x) = "ref" THEN (IF f \in DOMAIN h[x.ref].obj THEN h[x.ref].obj[f] ELSE Undef)
    ELSE Undef

\* a[i] for a 0-based index
At(a, i) == IF T(a) = "arr" /\ i + 1 \in 1..Len(a.arr) THEN a.arr[i + 1] ELSE Undef

\* a?.length
Length(a) == IF T(a) = "arr" THEN Num(Len(a.arr)) ELSE Undef

\* x.f = val
SetProp(h, x, f, val) ==
    LET n == h[x.ref].obj
    IN  [h EXCEPT ![x.ref] = Obj([g \in DOMAIN n \cup {f} |-> IF g = f THEN val ELSE n[g]])]


(***************************************************************************)
(* Constants of the program                                                *)
(***************************************************************************)
VALID_CPUS == {<<"1">>, <<"2">>, <<"4">>, <<"8">>}

PLACEHOLDER_IMAGE ==
    <<"{", "{", "C", "O", "N", "T", "A", "I", "N", "E", "R", "_",
      "I", "M", "A", "G", "E", "}", "}">>

FALLBACK_IMAGE ==
    <<"g", "c", "r", ".", "i", "o", "/", "c", "l", "o", "u", "d", "r", "u", "n", "/",
      "c", "o", "n", "t", "a", "i", "n", "e", "r", ":", "h", "e", "l", "l", "o">>

DEFAULT_REGION == <<"e", "u", "r", "o", "p", "e", "-", "w", "e", "s", "t", "1">>

DnsLabelMax == 63
DefaultTimeoutSeconds == 300

NanosDigits == 9

ALREADY_EXISTS == 6

CredentialsStatus == 503

\* x.f on a plain value (the request body and its parts are never mutated)
Prop(x, f) == IF T(x) = "obj" /\ f \in DOMAIN x.obj THEN x.obj[f] ELSE Undef

\* s.replace(/(\d+)$/, "$1s"): a string that ends in a digit gets an "s" appended
AppendUnit(s) == IF Len(s) > 0 /\ s[Len(s)] \in Digits THEN Append(s, "s") ELSE s

\* the length of the longest prefix of s made of digits
RECURSIVE DigitPrefixLen(_)
DigitPrefixLen(s) ==
    IF Len(s) > 0 /\ s[1] \in Digits THEN 1 + DigitPrefixLen(Tail(s)) ELSE 0

\* parseInt(s, 10): leading white space, an optional sign, then the digits; NaN if none
ParseInt(s) ==
    LET t    == TrimStart(s)
        neg  == Len(t) > 0 /\ t[1] = "-"
        body == IF Len(t) > 0 /\ t[1] \in {"-", "+"} THEN Tail(t) ELSE t
        n    == DigitPrefixLen(body)
    IN  IF n = 0 THEN NaN
        ELSE Num((IF neg THEN -1 ELSE 1) * StrToNat(SubSeq(body, 1, n)))

\* str.match(/^(\d+)(?:\.(\d+))?s$/) for a string with n leading digits:
\* the groups, or Null when there is no match
MatchDurationAt(s, n) ==
    IF n = 0 THEN Null
    ELSE IF SubSeq(s, n + 1, Len(s)) = <<"s">>
         THEN Obj([g1 |-> Str(SubSeq(s, 1, n)), g2 |-> Undef])
    ELSE IF /\ Len(s) >= n + 3
            /\ s[n + 1] = "."
            /\ s[Len(s)] = "s"
            /\ AllIn(SubSeq(s, n + 2, Len(s) - 1), Digits)
         THEN Obj([g1 |-> Str(SubSeq(s, 1, n)), g2 |-> Str(SubSeq(s, n + 2, Len(s) - 1))])
    ELSE Null

MatchDuration(s) == MatchDurationAt(s, DigitPrefixLen(s))

\* a fraction taken as it is written, without padding
NoPad(s) == s

\* s.padEnd(9, "0").slice(0, 9)
RECURSIVE PadEnd9(_)
PadEnd9(s) == IF Len(s) >= NanosDigits THEN SubSeq(s, 1, NanosDigits)
              ELSE PadEnd9(Append(s, "0"))

\* Math.max(0, n)
\* seconds kept with their sign
KeepSign(n) == n

Max0(n) == IF n < 0 THEN 0 ELSE n

\* lines 35-37, given str and its match
DurationOf(str, match) ==
    Obj([seconds |-> Num(Max0(IF match # Null THEN ParseInt(match.obj.g1.str).num
                              ELSE OrElse(ParseInt(str), Num(DefaultTimeoutSeconds)).num)),
         nanos   |-> IF match # Null /\ Truthy(match.obj.g2)
                     THEN ParseInt(PadEnd9(match.obj.g2.str)) ELSE Num(0)])

\* line 33-34, given str
DurationOfString(str) == DurationOf(str, MatchDuration(str))

\* parseTimeoutToDuration(value): the value, or the tree of the Duration it builds
ParseTimeoutToDuration(h, value) ==
    IF IsNullish(value) THEN Undef
    ELSE IF T(value) = "ref" /\ "seconds" \in DOMAIN h[value.ref].obj THEN value
    ELSE DurationOfString(AppendUnit(Trim(JsString(value))))

\* spec.template
TemplateOf(h, spec) == Get(h, spec, "template")

\* a conversion that writes the Duration on the spec itself, not on its template
StoreOnSpec(d, spec) == [h |-> SetProp(d.h, spec, "timeout", d.v), v |-> spec]

\* template.timeout = <the value allocated in d>
StoreTimeout(d, spec) ==
    [h |-> SetProp(d.h, TemplateOf(d.h, spec), "timeout", d.v), v |-> spec]

\* lines 45-49 of toApiShape, given the clone
ShapeTimeout(c) ==
    CASE Computed(c) ->
        IF ~IsNullish(Get(c.h, TemplateOf(c.h, c.v), "timeout"))
        THEN StoreTimeout(Alloc(c.h, ParseTimeoutToDuration(
                                         c.h, Get(c.h, TemplateOf(c.h, c.v), "timeout"))),
                          c.v)
        ELSE c

\* toApiShape(serviceSpec): a clone whose template.timeout is a Duration
ToApiShape(h0, serviceSpec) == ShapeTimeout(StructuredClone(h0, serviceSpec))

\* e.split("=")
RECURSIVE Split(_, _)
Split(s, sep) ==
    IF \E i \in 1..Len(s) : s[i] = sep
    THEN LET i == CHOOSE j \in 1..Len(s) : s[j] = sep /\ \A k \in 1..(j - 1) : s[k] # sep
         IN  <<SubSeq(s, 1, i - 1)>> \o Split(SubSeq(s, i + 1, Len(s)), sep)
    ELSE <<s>>

\* a value taken from the second part alone
SecondPart(parts, sep) == IF Len(parts) = 0 THEN <<>> ELSE parts[1]

\* parts.join("=")
RECURSIVE Join(_, _)
Join(parts, sep) ==
    IF Len(parts) = 0 THEN <<>>
    ELSE IF Len(parts) = 1 THEN parts[1]
    ELSE parts[1] \o <<sep>> \o Join(Tail(parts), sep)

\* the callback of overrides.env.map
EnvEntry(e) ==
    IF T(e) = "str"
    THEN Obj([name  |-> Str(Split(e.str, "=")[1]),
              value |-> OrElse(Str(Join(Tail(Split(e.str, "=")), "=")), Str(<<>>))])
    ELSE Obj([name  |-> Prop(e, "name"),
              value |-> Str(JsString(Coalesce(Prop(e, "value"), Str(<<>>))))])

\* the freshly built container of applyOverrides
EmptyContainer ==
    Obj([image     |-> Str(<<>>),
         env       |-> Arr(<<>>),
         resources |-> Obj([limits |-> Obj(EmptyRec)])])

\* x.f = <the value allocated in a>
StoreFresh(a, x, f) ==
    CASE Computed(a) ->
        SetProp(a.h, x, f, a.v)

\* x.f = x.f || <tree>: the heap afterwards
EnsureProp(h, x, f, tree) ==
    IF Truthy(Get(h, x, f)) THEN h ELSE StoreFresh(Alloc(h, tree), x, f)

\* x.f = val when cond, else nothing
SetIf(cond, h, x, f, val) == IF cond THEN SetProp(h, x, f, val) ELSE h

\* merged.template.containers[0], and what hangs below it
ContainerOf(h, spec) == At(Get(h, TemplateOf(h, spec), "containers"), 0)
ResourcesOf(h, spec) == Get(h, ContainerOf(h, spec), "resources")
LimitsOf(h, spec)    == Get(h, ResourcesOf(h, spec), "limits")
ScalingOf(h, spec)   == Get(h, TemplateOf(h, spec), "scaling")

\* lines 83-86: the template and the container slot
MergeSkeleton(h, merged) ==
    CASE Computed(h) ->
        IF ~Truthy(Length(Get(h, TemplateOf(h, merged), "containers")))
        THEN StoreFresh(Alloc(h, Arr(<<EmptyContainer>>)), TemplateOf(h, merged), "containers")
        ELSE h

\* a merge that puts the fallback image over whatever the template holds
AlwaysFallback(ovImage, cImage) == Str(FALLBACK_IMAGE)

\* lines 89-94: the image chosen, Null for none
ChooseImage(ovImage, cImage) ==
    OrElse(OrElse(ovImage, IF ovImage = Str(<<>>) THEN Str(<<>>) ELSE Null),
           IF Truthy(cImage) /\ cImage # Str(PLACEHOLDER_IMAGE) THEN cImage ELSE Null)

\* a merge that leaves an unresolved placeholder where it is
KeepPlaceholder(h, container, image) ==
    IF image # Null THEN SetProp(h, container, "image", image) ELSE h

\* lines 95-99
StoreImage(h, container, image) ==
    IF image # Null THEN SetProp(h, container, "image", image)
    ELSE IF JsString(Get(h, container, "image")) = PLACEHOLDER_IMAGE
         THEN SetProp(h, container, "image", Str(FALLBACK_IMAGE))
    ELSE h

MergeImage(h, merged, overrides) ==
    CASE Computed(h) ->
        StoreImage(h, ContainerOf(h, merged),
                   ChooseImage(Prop(overrides, "containerImage"),
                               Get(h, ContainerOf(h, merged), "image")))

\* lines 101-107: the environment list
MergeEnv(h, merged, ovEnv) ==
    CASE Computed(h) ->
        IF T(ovEnv) = "arr" /\ Len(ovEnv.arr) > 0
        THEN StoreFresh(Alloc(h, Arr([i \in 1..Len(ovEnv.arr) |-> EnvEntry(ovEnv.arr[i])])),
                        ContainerOf(h, merged), "env")
        ELSE h

\* lines 112-117, once container.resources.limits is there
\* a merge that stores the always-on-CPU flag whether or not it was given
StoreIdleAlways(h, merged, ovRes) ==
    SetProp(SetIf(~IsNullish(Prop(ovRes, "memory")),
                  SetIf(~IsNullish(Prop(ovRes, "cpu")),
                        h, LimitsOf(h, merged), "cpu", Str(JsString(Prop(ovRes, "cpu")))),
                  LimitsOf(h, merged), "memory", Str(JsString(Prop(ovRes, "memory")))),
            ResourcesOf(h, merged), "cpuIdle", Bool(Truthy(Prop(ovRes, "cpuIdle"))))

StoreLimits(h, merged, ovRes) ==
    CASE Computed(h) ->
        SetIf(Prop(ovRes, "cpuIdle") # Undef,
              SetIf(~IsNullish(Prop(ovRes, "memory")),
                    SetIf(~IsNullish(Prop(ovRes, "cpu")),
                          h, LimitsOf(h, merged), "cpu", Str(JsString(Prop(ovRes, "cpu")))),
                    LimitsOf(h, merged), "memory", Str(JsString(Prop(ovRes, "memory")))),
              ResourcesOf(h, merged), "cpuIdle", Bool(Truthy(Prop(ovRes, "cpuIdle"))))

\* line 111, once container.resources is there
EnsureLimits(h, merged) ==
    CASE Computed(h) ->
        EnsureProp(h, ResourcesOf(h, merged), "limits", Obj(EmptyRec))

\* lines 109-118: the resource limits
MergeResources(h, merged, ovRes) ==
    CASE Computed(h) ->
        IF Truthy(ovRes)
        THEN StoreLimits(EnsureLimits(EnsureProp(h, ContainerOf(h, merged), "resources",
                                                 Obj([limits |-> Obj(EmptyRec)])),
                                      merged),
                         merged, ovRes)
        ELSE h

\* lines 122-125, once template.scaling is there
StoreScaling(h, merged, ovMin, ovMax) ==
    CASE Computed(h) ->
        SetIf(ovMax # Undef,
              SetIf(ovMin # Undef, h, ScalingOf(h, merged), "minInstanceCount", ToNumber(ovMin)),
              ScalingOf(h, merged), "maxInstanceCount", ToNumber(ovMax))

\* lines 120-126: the scaling bounds
MergeScaling(h, merged, ovMin, ovMax) ==
    CASE Computed(h) ->
        IF ovMin # Undef \/ ovMax # Undef
        THEN StoreScaling(EnsureProp(h, TemplateOf(h, merged), "scaling", Obj(EmptyRec)),
                          merged, ovMin, ovMax)
        ELSE h

\* lines 128-131: the timeout
MergeTimeout(h, merged, ovTimeout) ==
    CASE Computed(h) ->
        SetIf(~IsNullish(ovTimeout), h, TemplateOf(h, merged), "timeout",
              OrElse(Str(AppendUnit(JsString(ovTimeout))), Str(<<"3", "0", "0", "s">>)))

\* lines 133-135: the description
MergeDescription(h, merged, ovDesc) ==
    CASE Computed(h) ->
        SetIf(~IsNullish(ovDesc), h, merged, "description", Str(JsString(ovDesc)))

\* lines 83-137 on the clone c of the base
MergeInto(c, overrides) ==
    CASE Computed(c) ->
        IF T(c.v) # "ref" THEN [h |-> c.h, v |-> c.v, err |-> "TypeError"]
        ELSE [h |-> MergeDescription(
                      MergeTimeout(
                        MergeScaling(
                          MergeResources(
                            MergeEnv(
                              MergeImage(
                                MergeSkeleton(
                                  EnsureProp(c.h, c.v, "template", Obj(EmptyRec)),
                                  c.v),
                                c.v, overrides),
                              c.v, Prop(overrides, "env")),
                            c.v, Prop(overrides, "resources")),
                          c.v, Prop(overrides, "minInstances"), Prop(overrides, "maxInstances")),
                        c.v, Prop(overrides, "timeout")),
                      c.v, Prop(overrides, "description")),
              v |-> c.v, err |-> "none"]

\* applyOverrides(base, overrides): the heap afterwards and the merged spec;
\* err is "TypeError" when base is not an object (merged.template.containers throws)
ApplyOverrides(h0, base, overrides) == MergeInto(StructuredClone(h0, base), overrides)

\* /^[a-z0-9]([-a-z0-9]*[a-z0-9])?$/.test(s)
\* a pattern that does not look at the last character
PatternOpenEnd(s) ==
    /\ Len(s) > 0
    /\ AllIn(s, LowerCase \cup Digits \cup {"-"})
    /\ s[1] \in LowerCase \cup Digits

ServiceNamePattern(s) ==
    /\ Len(s) > 0
    /\ AllIn(s, LowerCase \cup Digits \cup {"-"})
    /\ s[1] \in LowerCase \cup Digits
    /\ s[Len(s)] \in LowerCase \cup Digits

\* a memory rule that accepts every string
AnyMemory(s) == TRUE

\* a pattern that accepts any two-character unit after the digits
MemoryAnyUnit(s) ==
    /\ Len(s) >= 3
    /\ AllIn(SubSeq(s, 1, Len(s) - 2), Digits)

\* MEMORY_PATTERN.test(s):  /^\d+(Mi|Gi)$/
MemoryPattern(s) ==
    /\ Len(s) >= 3
    /\ AllIn(SubSeq(s, 1, Len(s) - 2), Digits)
    /\ SubSeq(s, Len(s) - 1, Len(s)) \in {<<"M", "i">>, <<"G", "i">>}

\* !x || !x.trim(), for x a string or nullish
Blank(x) == ~Truthy(x) \/ Len(Trim(x.str)) = 0

\* x < 0 on numbers (false of NaN)
\* a check that takes no number for negative
NeverNegative(x) == FALSE

Negative(x) == T(x) = "num" /\ x.num < 0

\* errors.push({ field, message }) when cond
PushIf(cond, field, message) ==
    IF cond THEN <<[field |-> field, message |-> message]>> ELSE <<>>

\* validateConfig(serviceSpec, serviceId, projectId, region): the errors it collects
\* (it throws ValidationError(errors) when there is one)
ValidateConfig(h, serviceSpec, serviceId, projectId, region) ==
    LET template   == Get(h, serviceSpec, "template")
        containers == Get(h, template, "containers")
        container  == IF Truthy(template) /\ Truthy(containers)
                      THEN At(containers, 0) ELSE Undef
        image      == Get(h, container, "image")
        resources  == Get(h, container, "resources")
        limits     == IF Truthy(resources) THEN Get(h, resources, "limits") ELSE Undef
        cpu        == Get(h, limits, "cpu")
        memory     == Get(h, limits, "memory")
        scaling    == IF Truthy(template) THEN Get(h, template, "scaling") ELSE Undef
        min        == Get(h, scaling, "minInstanceCount")
        max        == Get(h, scaling, "maxInstanceCount")
    IN  (IF ~Truthy(serviceId) \/ T(serviceId) # "str"
         THEN PushIf(TRUE, "serviceName", "Service name is required")
         ELSE PushIf(~ServiceNamePattern(serviceId.str), "serviceName",
                     "Service name must be DNS label (lowercase, numbers, hyphens, max 63 chars)"))
        \o PushIf(Blank(projectId), "projectId", "GCP project ID is required")
        \o PushIf(Blank(region), "region", "Region is required")
        \o (IF ~Truthy(container)
            THEN PushIf(TRUE, "template", "At least one container is required")
            ELSE PushIf(Blank(image), "containerImage", "Container image is required")
                 \o (IF Truthy(limits)
                     THEN PushIf(Truthy(cpu) /\ JsString(cpu) \notin VALID_CPUS,
                                 "resources.cpu", "CPU must be one of: 1, 2, 4, 8")
                          \o PushIf(Truthy(memory) /\ ~MemoryPattern(JsString(memory)),
                                    "resources.memory",
                                    "Memory must be e.g. 256Mi, 512Mi, 1Gi, 2Gi")
                     ELSE <<>>))
        \o (IF Truthy(scaling)
            THEN PushIf(~IsNullish(min) /\ (Negative(min) \/ ~IsInteger(min)),
                        "minInstances", "minInstanceCount must be a non-negative integer")
                 \o PushIf(~IsNullish(max) /\ (Negative(max) \/ ~IsInteger(max)),
                           "maxInstances", "maxInstanceCount must be a non-negative integer")
                 \o PushIf(/\ ~IsNullish(min) /\ ~IsNullish(max)
                           /\ IsInteger(min) /\ IsInteger(max)
                           /\ min.num > max.num,
                           "scaling", "minInstanceCount cannot exceed maxInstanceCount")
            ELSE <<>>)


(***************************************************************************)
(* Errors thrown by deploy                                                 *)
(***************************************************************************)
NoError == [class |-> "none"]

BadRequestError(message) == [class |-> "BadRequestError", message |-> message]

ValidationError(errors) == [class |-> "ValidationError", errors |-> errors]

\* new InternalError(`${prefix}${err.message}`)
InternalError(prefix, detail) ==
    [class |-> "InternalError", message |-> prefix, detail |-> JsString(detail)]

ApiError(message, statusCode, code, hint) ==
    [class |-> "ApiError", message |-> message, statusCode |-> statusCode,
     code |-> code, hint |-> hint]

\* the TypeError of reading a property of undefined
TypeError == [class |-> "TypeError"]

\* an exception of the transport client that no handler of deploy catches
Uncaught(err) == [class |-> "uncaught", err |-> err]

(***************************************************************************)
(* deploy(), up to its first await                                         *)
(***************************************************************************)
\* config.cloudRun of config/index.js
Config(e) ==
    [projectId |-> OrElse(e.GCP_PROJECT_ID, Str(<<>>)),
     region    |-> OrElse(e.GCP_REGION, Str(DEFAULT_REGION))]

\* { ...options, region, projectId }
WithIdentity(options, region, projectId) ==
    LET o == IF T(options) = "obj" THEN options.obj ELSE EmptyRec
    IN  Obj([f \in DOMAIN o \cup {"region", "projectId"} |->
               IF f = "region" THEN region
               ELSE IF f = "projectId" THEN projectId
               ELSE o[f]])

\* `projects/${projectId}/locations/${region}`
Parent(projectId, region) ==
    <<"p", "r", "o", "j", "e", "c", "t", "s", "/">> \o JsString(projectId)
    \o <<"/", "l", "o", "c", "a", "t", "i", "o", "n", "s", "/">> \o JsString(region)

\* `${parent}/services/${serviceId}`
FullServiceName(parent, serviceId) ==
    parent \o <<"/", "s", "e", "r", "v", "i", "c", "e", "s", "/">> \o JsString(serviceId)

\* loadBaseTemplate(): the error it throws, if any
LoadError(f) ==
    CASE f.kind = "unreadable" ->
           InternalError("Failed to load Cloud Run template: ", f.error)
      [] f.kind = "invalid" ->
           InternalError("Invalid Cloud Run template YAML: ", f.error)
      [] OTHER -> NoError

\* the locals of a deploy call that has not started
IdleCall ==
    [pc |-> "idle", options |-> Undef, projectId |-> Undef, region |-> Undef,
     serviceId |-> Undef, h |-> <<>>, base |-> Undef, serviceSpec |-> Undef,
     apiSpec |-> Undef, serviceForUpdate |-> Undef, service |-> Undef, err |-> Undef,
     thrown |-> NoError, result |-> Undef, sent |-> <<>>, after |-> {}]

Fail(call, error) == [call EXCEPT !.pc = "failed", !.thrown = error]

\* runClient.createService({ parent, serviceId, service: apiSpec, validateOnly: false })
CreateRequest(h, parent, serviceId, apiSpec) ==
    [rpc |-> "createService", parent |-> Str(parent), serviceId |-> serviceId,
     service |-> Read(h, apiSpec), validateOnly |-> FALSE]

\* runClient.updateService({ service: serviceForUpdate, validateOnly: false })
UpdateRequest(h, serviceForUpdate) ==
    [rpc |-> "updateService", parent |-> Undef, serviceId |-> Undef,
     service |-> Read(h, serviceForUpdate), validateOnly |-> FALSE]

\* lines 260-271: the transport spec and the create request
SendCreate(call, a) ==
    CASE Computed(a) ->
        [call EXCEPT !.pc = "createRequest", !.h = a.h, !.apiSpec = a.v,
                     !.sent = <<CreateRequest(a.h, Parent(call.projectId, call.region),
                                              call.serviceId, a.v)>>]

\* a deploy that sends the create request whatever validateConfig collected
NotValidated(call, errors) == SendCreate(call, ToApiShape(call.h, call.serviceSpec))

\* lines 258-271, with the errors validateConfig collected
Validated(call, errors) ==
    IF Len(errors) > 0 THEN Fail(call, ValidationError(errors))
    ELSE SendCreate(call, ToApiShape(call.h, call.serviceSpec))

\* lines 252-271, with the result of applyOverrides
Merged(call, m) ==
    IF m.err = "TypeError" THEN Fail(call, TypeError)
    ELSE Validated([call EXCEPT !.h = m.h, !.serviceSpec = m.v],
                   ValidateConfig(m.h, m.v, call.serviceId, call.projectId, call.region))

\* lines 251-271, with the object graph yaml.load built
Loaded(call, loaded) ==
    CASE Computed(loaded) ->
        Merged([call EXCEPT !.h = loaded.h, !.base = loaded.v],
               ApplyOverrides(loaded.h, loaded.v,
                              WithIdentity(call.options, call.region, call.projectId)))

\* lines 245-271, with projectId, region and serviceId resolved
Resolved(call, f) ==
    IF Blank(call.projectId)
    THEN Fail(call, BadRequestError("GCP project ID is required. Set GCP_PROJECT_ID or pass projectId in the request body."))
    ELSE IF LoadError(f) # NoError THEN Fail(call, LoadError(f))
    ELSE Loaded(call, Alloc(<<>>, f.doc))

\* options = {} when the argument is undefined
DefaultOptions(options) == IF T(options) = "undef" THEN Obj(EmptyRec) ELSE options

\* deploy(options) from its entry to the createService call (lines 238-271)
DeployEntry(call, options, e, f) ==
    Resolved([call EXCEPT
                !.options   = DefaultOptions(options),
                !.projectId = Coalesce(Coalesce(Prop(DefaultOptions(options), "projectId"),
                                                Config(e).projectId),
                                       e.GCP_PROJECT_ID),
                !.region    = Coalesce(Coalesce(Coalesce(Prop(DefaultOptions(options),
                                                              "region"),
                                                         Config(e).region),
                                                e.GCP_REGION),
                                       Str(DEFAULT_REGION)),
                !.serviceId = OrElse(Prop(DefaultOptions(options), "serviceName"),
                                     Prop(DefaultOptions(options), "serviceId"))],
             f)

(***************************************************************************)
(* The control plane, as the transport client shows it to deploy: a        *)
(* request is accepted (an operation is returned) or rejected with an      *)
(* error; the operation later settles with the resource or with an error.  *)
(***************************************************************************)
\* gRPC ALREADY_EXISTS, with the status code and without it
ErrAlreadyExistsCode ==
    Obj([code    |-> Num(ALREADY_EXISTS),
         message |-> Str(<<"6", " ", "A", "L", "R", "E", "A", "D", "Y", "_",
                           "E", "X", "I", "S", "T", "S">>)])

ErrAlreadyExistsText ==
    Obj([message |-> Str(<<"S", "e", "r", "v", "i", "c", "e", " ", "a", "l", "r", "e",
                           "a", "d", "y", " ", "e", "x", "i", "s", "t", "s">>)])

\* google-auth-library: no application default credentials
ErrNoCredentials ==
    Obj([message |-> Str(<<"C", "o", "u", "l", "d", " ", "n", "o", "t", " ", "l", "o",
                           "a", "d", " ", "t", "h", "e", " ", "d", "e", "f", "a", "u",
                           "l", "t", " ", "c", "r", "e", "d", "e", "n", "t", "i", "a",
                           "l", "s">>)])

\* gRPC UNAUTHENTICATED
ErrUnauthenticated ==
    Obj([code    |-> Num(16),
         message |-> Str(<<"R", "e", "q", "u", "e", "s", "t", " ", "h", "a", "d", " ",
                           "i", "n", "v", "a", "l", "i", "d", " ", "a", "u", "t", "h",
                           "e", "n", "t", "i", "c", "a", "t", "i", "o", "n", " ", "c",
                           "r", "e", "d", "e", "n", "t", "i", "a", "l", "s">>)])

\* gRPC UNAVAILABLE
ErrUnavailable ==
    Obj([code    |-> Num(14),
         message |-> Str(<<"1", "4", " ", "U", "N", "A", "V", "A", "I", "L", "A", "B",
                           "L", "E">>)])

\* an exception that carries no message
ErrNoMessage == Obj([code |-> Num(13)])

AlreadyExistsErrors == {ErrAlreadyExistsCode, ErrAlreadyExistsText}
CredentialErrors    == {ErrNoCredentials, ErrUnauthenticated}
FailureErrors       == CredentialErrors \cup {ErrUnavailable, ErrNoMessage}

\* a control plane that does not enforce the uniqueness of names
NeverExists(name) == FALSE

Exists(name) == \E s \in remote : s.name = name

\* a control plane whose service address changes with every generation
ServiceResourceByGeneration(name, generation, reconciling) ==
    Obj([name        |-> Str(name),
         uri         |-> Str(<<"h", "t", "t", "p", "s", ":", "/", "/">> \o name
                             \o <<"/">> \o NatToStr(generation)),
         generation  |-> Num(generation),
         reconciling |-> Bool(reconciling),
         latestReadyRevision |-> Undef])

\* the Service resource an operation resolves to
ServiceResource(name, generation, reconciling) ==
    Obj([name        |-> Str(name),
         uri         |-> Str(<<"h", "t", "t", "p", "s", ":", "/", "/">> \o name),
         generation  |-> Num(generation),
         reconciling |-> Bool(reconciling),
         latestReadyRevision |->
             IF reconciling THEN Undef
             ELSE Str(name \o <<"-">> \o NatToStr(generation))])

\* the name a request is about
RequestName(req) ==
    IF req.rpc = "createService"
    THEN FullServiceName(req.parent.str, req.serviceId)
    ELSE JsString(Prop(req.service, "name"))

LastRequest(call) == call.sent[Len(call.sent)]

(***************************************************************************)
(* deploy(), after an await                                                *)
(***************************************************************************)
\* a catch block that recognises no collision
NoCollision(err) == FALSE

\* err.code === 6 || (err.message && err.message.includes("already exists"))
IsAlreadyExists(err) ==
    \/ Prop(err, "code") = Num(ALREADY_EXISTS)
    \/ /\ Truthy(Prop(err, "message"))
       /\ Includes(Prop(err, "message").str,
                   <<"a", "l", "r", "e", "a", "d", "y", " ", "e", "x", "i", "s", "t", "s">>)

\* err.message?.includes("Could not load the default credentials") || ...
IsCredentialsError(err) ==
    /\ ~IsNullish(Prop(err, "message"))
    /\ \/ Includes(Prop(err, "message").str,
                   <<"C", "o", "u", "l", "d", " ", "n", "o", "t", " ", "l", "o", "a", "d",
                     " ", "t", "h", "e", " ", "d", "e", "f", "a", "u", "l", "t", " ",
                     "c", "r", "e", "d", "e", "n", "t", "i", "a", "l", "s">>)
       \/ Includes(Prop(err, "message").str,
                   <<"c", "r", "e", "d", "e", "n", "t", "i", "a", "l", "s">>)
       \/ Includes(Prop(err, "message").str,
                   <<"a", "u", "t", "h", "e", "n", "t", "i", "c", "a", "t", "i", "o", "n">>)

\* lines 279-282, with serviceForUpdate built
SendUpdate(call, u) ==
    CASE Computed(u) ->
        [call EXCEPT !.pc = "updateRequest", !.h = u.h, !.serviceForUpdate = u.v,
                     !.sent = Append(call.sent, UpdateRequest(u.h, u.v))]

\* a catch block that submits the create request again after a failure
CatchAndRetry(call, err) ==
    [call EXCEPT !.pc = "createRequest", !.err = err,
                 !.sent = Append(call.sent, call.sent[1])]

\* the catch block of deploy (lines 274-301), entered with err
Catch(call, err) ==
    IF IsAlreadyExists(err)
    THEN SendUpdate([call EXCEPT !.err = err],
                    SpreadWith(call.h, call.apiSpec, "name",
                               Str(FullServiceName(Parent(call.projectId, call.region),
                                                   call.serviceId))))
    ELSE IF IsCredentialsError(err)
    THEN Fail([call EXCEPT !.err = err],
              ApiError("Google Cloud credentials are not configured. Set up Application Default Credentials to deploy to Cloud Run.",
                       CredentialsStatus, "GCP_CREDENTIALS_MISSING",
                       "Run 'gcloud auth application-default login' or set GOOGLE_APPLICATION_CREDENTIALS to a service account key file. See https://cloud.google.com/docs/authentication/getting-started"))
    ELSE Fail([call EXCEPT !.err = err],
              InternalError("Cloud Run deployment failed: ", Prop(err, "message")))

\* lines 303-313: the DeployResult built from the resource the operation returned
\* a return that reports every service as settled
ReturnSettled(call, service) ==
        [call EXCEPT
           !.pc = "done",
           !.service = service,
           !.result = Obj([status |-> Str(<<"R", "E", "A", "D", "Y">>),
                           serviceUrl  |-> Coalesce(Coalesce(Prop(service, "uri"),
                                                             Prop(service, "url")),
                                                    Str(<<>>)),
                           reconciling |-> Bool(FALSE),
                           serviceName |-> call.serviceId,
                           region      |-> call.region,
                           latestReadyRevision |->
                               Coalesce(Prop(service, "latestReadyRevision"), Null)])]

Return(call, service) ==
        [call EXCEPT
           !.pc = "done",
           !.service = service,
           !.result = Obj([status |-> IF Truthy(Prop(service, "reconciling"))
                                      THEN Str(<<"R", "E", "C", "O", "N", "C", "I", "L",
                                                 "I", "N", "G">>)
                                      ELSE Str(<<"R", "E", "A", "D", "Y">>),
                           serviceUrl  |-> Coalesce(Coalesce(Prop(service, "uri"),
                                                             Prop(service, "url")),
                                                    Str(<<>>)),
                           reconciling |-> Bool(Truthy(Prop(service, "reconciling"))),
                           serviceName |-> call.serviceId,
                           region      |-> call.region,
                           latestReadyRevision |->
                               Coalesce(Prop(service, "latestReadyRevision"), Null)])]


(***************************************************************************)
(* Actions                                                                 *)
(***************************************************************************)
\* a caller invokes deploy(options); it runs to its first await or to a throw
DeployStart(c, options) ==
    /\ calls[c].pc = "idle"
    /\ calls' = [calls EXCEPT ![c] =
                   DeployEntry([calls[c] EXCEPT
                                  !.after = {d \in DOMAIN calls : calls[d].pc = "done"}],
                               options, env, file)]
    /\ UNCHANGED <<env, file, remote, registrations, db, purchases>>

\* await runClient.createService(...) resumes with an operation
CreateAccepted(c) ==
    /\ calls[c].pc = "createRequest"
    /\ ~Exists(RequestName(LastRequest(calls[c])))
    /\ calls' = [calls EXCEPT ![c].pc = "createWait"]
    /\ UNCHANGED <<env, file, remote, registrations, db, purchases>>

\* await runClient.createService(...) throws
CreateRejected(c) ==
    /\ calls[c].pc = "createRequest"
    /\ \E err \in FailureErrors \cup
                  (IF Exists(RequestName(LastRequest(calls[c])))
                   THEN AlreadyExistsErrors ELSE {}) :
          calls' = [calls EXCEPT ![c] = Catch(calls[c], err)]
    /\ UNCHANGED <<env, file, remote, registrations, db, purchases>>

\* await operation.promise() of the create resolves: the service now exists
CreateSucceeded(c) ==
    /\ calls[c].pc = "createWait"
    /\ ~Exists(RequestName(LastRequest(calls[c])))
    /\ \E reconciling \in BOOLEAN :
          LET req  == LastRequest(calls[c])
              name == RequestName(req)
          IN  /\ remote' = remote \cup
                           {[name |-> name, spec |-> req.service, generation |-> 1]}
              /\ calls' = [calls EXCEPT ![c] =
                             Return(calls[c], ServiceResource(name, 1, reconciling))]
    /\ UNCHANGED <<env, file, registrations, db, purchases>>

\* await operation.promise() of the create throws
CreateFailed(c) ==
    /\ calls[c].pc = "createWait"
    /\ \E err \in FailureErrors \cup
                  (IF Exists(RequestName(LastRequest(calls[c])))
                   THEN AlreadyExistsErrors ELSE {}) :
          calls' = [calls EXCEPT ![c] = Catch(calls[c], err)]
    /\ UNCHANGED <<env, file, remote, registrations, db, purchases>>

\* await runClient.updateService(...) resumes with an operation
UpdateAccepted(c) ==
    /\ calls[c].pc = "updateRequest"
    /\ Exists(RequestName(LastRequest(calls[c])))
    /\ calls' = [calls EXCEPT ![c].pc = "updateWait"]
    /\ UNCHANGED <<env, file, remote, registrations, db, purchases>>

\* await runClient.updateService(...) throws: nothing in deploy catches it
UpdateRejected(c) ==
    /\ calls[c].pc = "updateRequest"
    /\ \E err \in FailureErrors :
          calls' = [calls EXCEPT ![c] = Fail([calls[c] EXCEPT !.err = err], Uncaught(err))]
    /\ UNCHANGED <<env, file, remote, registrations, db, purchases>>

\* await operation.promise() of the update resolves: the service is replaced
UpdateSucceeded(c) ==
    /\ calls[c].pc = "updateWait"
    /\ \E reconciling \in BOOLEAN :
       \E old \in {s \in remote : s.name = RequestName(LastRequest(calls[c]))} :
          LET req == LastRequest(calls[c])
          IN  /\ remote' = (remote \ {old}) \cup
                           {[name |-> old.name, spec |-> req.service,
                             generation |-> old.generation + 1]}
              /\ calls' = [calls EXCEPT ![c] =
                             Return(calls[c],
                                    ServiceResource(old.name, old.generation + 1,
                                                    reconciling))]
    /\ UNCHANGED <<env, file, registrations, db, purchases>>

\* await operation.promise() of the update throws: nothing in deploy catches it
UpdateFailed(c) ==
    /\ calls[c].pc = "updateWait"
    /\ \E err \in FailureErrors :
          calls' = [calls EXCEPT ![c] = Fail([calls[c] EXCEPT !.err = err], Uncaught(err))]
    /\ UNCHANGED <<env, file, remote, registrations, db, purchases>>

\* applyOverrides(base, overrides) returns or throws
MergeReturned(call, m) ==
    IF m.err = "TypeError" THEN Fail(call, TypeError)
    ELSE [call EXCEPT !.pc = "merged", !.h = m.h, !.serviceSpec = m.v]

\* applyOverrides(base, overrides), base being the graph yaml.load built
MergeLoaded(call, loaded) ==
    CASE Computed(loaded) ->
        MergeReturned([call EXCEPT !.h = loaded.h, !.base = loaded.v],
                      ApplyOverrides(loaded.h, loaded.v, call.options))

\* toApiShape(serviceSpec) returns
ShapeReturned(call, a) ==
    CASE Computed(a) -> [call EXCEPT !.pc = "shaped", !.h = a.h, !.apiSpec = a.v]

\* a caller invokes applyOverrides(loadBaseTemplate(), overrides)
ApplyOverridesCall(c, overrides) ==
    /\ calls[c].pc = "idle"
    /\ calls' = [calls EXCEPT ![c] =
                   MergeLoaded([calls[c] EXCEPT !.options = overrides],
                               Alloc(<<>>, file.doc))]
    /\ UNCHANGED <<env, file, remote, registrations, db, purchases>>

\* the caller passes the merged spec to toApiShape
ToApiShapeCall(c) ==
    /\ calls[c].pc = "merged"
    /\ calls' = [calls EXCEPT ![c] =
                   ShapeReturned(calls[c], ToApiShape(calls[c].h, calls[c].serviceSpec))]
    /\ UNCHANGED <<env, file, remote, registrations, db, purchases>>

\* a caller invokes parseTimeoutToDuration(value)
ParseTimeoutCall(c, value) ==
    /\ calls[c].pc = "idle"
    /\ calls' = [calls EXCEPT ![c] =
                   [calls[c] EXCEPT !.pc = "parsed", !.options = value,
                                    !.result = ParseTimeoutToDuration(<<>>, value)]]
    /\ UNCHANGED <<env, file, remote, registrations, db, purchases>>

\* toApiShape is called with a spec that holds the timeout alone
ToApiShapeOfTimeout(c, value) ==
    /\ calls[c].pc = "idle"
    /\ calls' = [calls EXCEPT ![c] =
                   ShapeReturned([calls[c] EXCEPT !.options = value],
                                 ToApiShape(<<Obj([template |-> Ref(2)]),
                                              Obj([timeout |-> value])>>, Ref(1)))]
    /\ UNCHANGED <<env, file, remote, registrations, db, purchases>>

\* toApiShape is called with the spec a first call of it returned
ToApiShapeAgain(c) ==
    /\ calls[c].pc = "shaped"
    /\ calls' = [calls EXCEPT ![c] =
                   [ShapeReturned(calls[c], ToApiShape(calls[c].h, calls[c].apiSpec))
                      EXCEPT !.pc = "reshaped"]]
    /\ UNCHANGED <<env, file, remote, registrations, db, purchases>>

Resume(c) ==
    \/ CreateAccepted(c)
    \/ CreateRejected(c)
    \/ CreateSucceeded(c)
    \/ CreateFailed(c)
    \/ UpdateAccepted(c)
    \/ UpdateRejected(c)
    \/ UpdateSucceeded(c)
    \/ UpdateFailed(c)


(***************************************************************************)
(* Inputs: the environment, the template document and the request bodies   *)
(***************************************************************************)
MaxInstances == 2

S_demo    == <<"d", "e", "m", "o", "-", "s", "v", "c">>
S_web     == <<"w", "e", "b">>
S_image   == <<"r", "e", "p", "o", "/", "i", "m", "g", ":", "v", "1">>
S_project == <<"p", "1">>
S_512Mi   == <<"5", "1", "2", "M", "i">>
S_1Gi     == <<"1", "G", "i">>
S_2GB     == <<"2", "G", "B">>
S_300s    == <<"3", "0", "0", "s">>

\* an object literal: the properties that are given
Body(fields) == Obj([f \in {g \in DOMAIN fields : fields[g] # Undef} |-> fields[f]])

\* process.env with and without GCP_PROJECT_ID
EnvUnset == [GCP_PROJECT_ID |-> Undef, GCP_REGION |-> Undef]
EnvSet   == [GCP_PROJECT_ID |-> Str(S_project), GCP_REGION |-> Undef]

\* templates/cloud-run-service.yaml as yaml.load returns it: one container slot,
\* default limits, default scaling and default timeout
TemplateDoc(image) ==
    Obj([template |->
           Obj([containers |->
                  Arr(<<Obj([image     |-> image,
                             env       |-> Arr(<<Obj([name  |-> Str(<<"A">>),
                                                      value |-> Str(<<"1">>)])>>),
                             resources |-> Obj([limits |->
                                                  Obj([cpu    |-> Str(<<"1">>),
                                                       memory |-> Str(S_512Mi)])])])>>),
                scaling |-> Obj([minInstanceCount |-> Num(0),
                                 maxInstanceCount |-> Num(10)]),
                timeout |-> Str(S_300s)])])

FileOf(doc)     == [kind |-> "doc", doc |-> doc, error |-> Undef]
DefaultFile     == FileOf(TemplateDoc(Str(PLACEHOLDER_IMAGE)))
UnreadableFile  == [kind |-> "unreadable", doc |-> Undef,
                    error |-> Str(<<"E", "N", "O", "E", "N", "T">>)]
InvalidFile     == [kind |-> "invalid", doc |-> Undef,
                    error |-> Str(<<"b", "a", "d", " ", "i", "n", "d", "e", "n", "t">>)]

\* documents the template file may hold: the shipped one (placeholder image), one
\* with a real default image, one without containers, an empty mapping, an empty file
TemplateFiles ==
    {DefaultFile,
     FileOf(TemplateDoc(Str(S_image))),
     FileOf(Obj([template |-> Obj([timeout |-> Str(S_300s)])])),
     FileOf(Obj(EmptyRec)),
     FileOf(Undef)}

\* values applyOverrides may be given as its base: the documents above, a container
\* that names no image, and an empty container list
Bases ==
    {f.doc : f \in TemplateFiles} \cup
    {Obj([template |-> Obj([containers |-> Arr(<<Obj([name |-> Str(<<"a", "p", "p">>)])>>),
                            timeout    |-> Str(<<"4", "5">>)])]),
     Obj([template |-> Obj([containers |-> Arr(<<>>)])])}

Files == TemplateFiles \cup {UnreadableFile, InvalidFile}

\* the scenario of the specification: a first deployment of demo-svc
DemoBody ==
    Body([serviceName    |-> Str(S_demo),
          containerImage |-> Str(S_image),
          projectId      |-> Str(S_project),
          resources      |-> Obj([cpu |-> Str(<<"1">>), memory |-> Str(S_512Mi)]),
          minInstances   |-> Num(0),
          maxInstances   |-> Num(3)])

\* bodies of the concurrent callers: the scenario, the same identity with another
\* spec, another identity, an invalid memory limit, and no project anywhere
CallBodies ==
    {DemoBody,
     Body([serviceName |-> Str(S_demo), projectId |-> Str(S_project),
           timeout |-> Str(<<"4", "5">>)]),
     Body([serviceName |-> Str(S_web), projectId |-> Str(S_project)]),
     Body([serviceName |-> Str(S_demo), projectId |-> Str(S_project),
           resources |-> Obj([memory |-> Str(S_2GB)])]),
     Body([serviceName |-> Str(S_demo)])}

\* numbers and near-numbers a body may carry for a scaling bound
ScalingValues ==
    {Undef, Str(<<"x">>), Num(11)} \cup {Num(n) : n \in -1..MaxInstances}

\* bodies that exercise the validation rules in every combination
ValidationBodies ==
    {Body([serviceName    |-> name,
           projectId      |-> project,
           region         |-> region,
           containerImage |-> image,
           resources      |-> Obj([cpu |-> cpu, memory |-> memory]),
           minInstances   |-> min,
           maxInstances   |-> max]) :
       name    \in {Str(S_demo), Str(<<"-", "B", "a", "d">>), Undef},
       project \in {Str(S_project), Str(<<" ">>)},
       region  \in {Undef, Str(<<>>)},
       image   \in {Str(S_image), Str(<<" ">>)},
       cpu     \in {Str(<<"2">>), Str(<<"3">>)},
       memory  \in {Str(S_1Gi), Str(S_2GB)},
       min     \in ScalingValues,
       max     \in ScalingValues}

\* bodies that exercise the merge rules, for a valid identity
MergeBodies ==
    {Body([serviceName    |-> Str(S_demo),
           projectId      |-> Str(S_project),
           containerImage |-> image,
           env            |-> envList,
           resources      |-> resources,
           minInstances   |-> scaling[1],
           maxInstances   |-> scaling[2],
           timeout        |-> timeout,
           description    |-> description]) :
       image       \in {Undef, Str(<<>>), Str(S_image)},
       envList     \in {Undef,
                        Arr(<<Str(<<"K", "=", "a", "=", "b">>),
                              Obj([name |-> Str(<<"N">>), value |-> Num(5)])>>)},
       resources   \in {Undef,
                        Obj([cpu |-> Num(2), memory |-> Str(S_1Gi),
                             cpuIdle |-> Bool(FALSE)])},
       scaling     \in {<<Undef, Undef>>, <<Num(1), Num(MaxInstances)>>},
       timeout     \in {Undef, Str(<<"1", ".", "2", "5", "0", "s">>)},
       description \in {Undef, Str(<<"d">>)}}

\* env overrides given alone: an empty list, and a list of strings with several '=',
\* with none and with nothing after it, followed by pairs with and without a value
EnvBodies ==
    {Obj([env |-> Arr(<<>>)]),
     Obj([env |-> Arr(<<Str(<<"K", "=", "a", "=", "b">>),
                        Str(<<"K", "E", "Y">>),
                        Str(<<"K", "=">>),
                        Str(<<"=", "v">>),
                        Obj([name |-> Str(<<"N">>), value |-> Num(5)]),
                        Obj([name |-> Str(<<"M">>)])>>)])}

\* resource and scaling overrides given independently of one another
LimitBodies ==
    {Body([resources    |-> Body([cpu |-> cpu, memory |-> memory, cpuIdle |-> cpuIdle]),
           minInstances |-> min,
           maxInstances |-> max]) :
       cpu     \in {Undef, Num(2)},
       memory  \in {Undef, Str(S_1Gi)},
       cpuIdle \in {Undef, Bool(TRUE), Bool(FALSE)},
       min     \in {Undef, Num(1)},
       max     \in {Undef, Num(MaxInstances)}}

\* service names: every text of up to MaxNameLen characters over a lowercase letter,
\* a digit, a hyphen, an uppercase letter and an underscore, a text one character
\* longer than a DNS label may be, a number and no name at all
MaxNameLen == 3

ServiceNames ==
    {Str(t) : t \in UNION {[1..n -> {"a", "9", "-", "A", "_"}] : n \in 0..MaxNameLen}}
    \cup {Str([i \in 1..(DnsLabelMax + 1) |-> "a"]), Num(5), Undef}

\* bodies that differ in the service name only
NameBodies ==
    {Body([serviceName |-> name, containerImage |-> Str(S_image)]) : name \in ServiceNames}

\* what a single call is given: against a service that exists, the bodies of the
\* scenario; without a project in the environment, every validation combination;
\* otherwise the merge combinations
BodiesFor(e, r) ==
    IF r # {} THEN CallBodies \cup NameBodies
    ELSE IF e = EnvUnset THEN ValidationBodies \cup {Undef, Obj(EmptyRec)}
    ELSE MergeBodies \cup {Undef, Obj(EmptyRec)}

MaxTimeoutLen == 4

\* timeout values: every text of up to MaxTimeoutLen characters over digits, the dot,
\* the unit and the blank; the examples of the specification; numbers; no value
TimeoutValues ==
    {Str(t) : t \in UNION {[1..n -> {"0", "1", "5", ".", "s", " "}] : n \in 0..MaxTimeoutLen}}
    \cup {Str(<<"3", "0", "0", "s">>), Str(<<"4", "5">>),
          Str(<<"1", ".", "2", "5", "0", "s">>), Str(<<"-", "5">>), Str(<<"a", "b">>),
          Str(<<"2", ".", "1", "2", "3", "4", "5", "6", "7", "8", "9", "s">>),
          Str(<<"7", ".", "9", "9", "9", "9", "9", "9", "9", "9", "9", "9">>),
          Num(45), Num(0), Num(-5), Undef, Null}

Callers == {"c1", "c2"}

\* a service demo-svc that the control plane already holds
ExistingService ==
    [name |-> FullServiceName(Parent(Str(S_project), Str(DEFAULT_REGION)), Str(S_demo)),
     spec |-> Obj(EmptyRec), generation |-> 1]

(***************************************************************************)
(* Concurrent deploy calls against the control plane                       *)
(***************************************************************************)
Init ==
    /\ env = EnvUnset
    /\ file = DefaultFile
    /\ remote \in {{}, {ExistingService}}
    /\ calls = [c \in Callers |-> IdleCall]
    /\ registrations = <<>>
    /\ db = <<>>
    /\ purchases = <<>>

Next ==
    \E c \in Callers :
       \/ \E options \in CallBodies : DeployStart(c, options)
       \/ Resume(c)

Spec == Init /\ [][Next]_vars

(***************************************************************************)
(* One deploy call, over the template documents and the request bodies     *)
(***************************************************************************)
InitOne ==
    /\ env \in {EnvUnset, EnvSet}
    /\ file \in (IF env = EnvUnset THEN {DefaultFile} ELSE Files)
    /\ remote \in (IF env = EnvSet /\ file = DefaultFile
                   THEN {{}, {ExistingService}} ELSE {{}})
    /\ calls = [c \in {"c1"} |-> IdleCall]
    /\ registrations = <<>>
    /\ db = <<>>
    /\ purchases = <<>>

NextOne ==
    \/ \E options \in BodiesFor(env, remote) : DeployStart("c1", options)
    \/ Resume("c1")

SpecOne == InitOne /\ [][NextOne]_vars


(***************************************************************************)
(* applyOverrides and toApiShape called on their own                       *)
(***************************************************************************)
InitMerge ==
    /\ env = EnvUnset
    /\ file \in {FileOf(b) : b \in Bases}
    /\ remote = {}
    /\ calls = [c \in {"c1"} |-> IdleCall]
    /\ registrations = <<>>
    /\ db = <<>>
    /\ purchases = <<>>

NextMerge ==
    \/ \E overrides \in MergeBodies \cup EnvBodies \cup LimitBodies \cup {Obj(EmptyRec)} :
          ApplyOverridesCall("c1", overrides)
    \/ ToApiShapeCall("c1")

SpecMerge == InitMerge /\ [][NextMerge]_vars


(***************************************************************************)
(* parseTimeoutToDuration called on its own                                *)
(***************************************************************************)
InitDuration ==
    /\ env = EnvUnset
    /\ file = DefaultFile
    /\ remote = {}
    /\ calls = [c \in {"c1"} |-> IdleCall]
    /\ registrations = <<>>
    /\ db = <<>>
    /\ purchases = <<>>

NextDuration ==
    \/ \E value \in TimeoutValues : ParseTimeoutCall("c1", value)
    \/ \E value \in TimeoutValues : ToApiShapeOfTimeout("c1", value)
    \/ ToApiShapeAgain("c1")

SpecDuration == InitDuration /\ [][NextDuration]_vars

(***************************************************************************)
(* POST /agents/register: registration and the deployment it starts        *)
(***************************************************************************)
NoResponse == [kind |-> "none"]

\* created(res, result)
CreatedResponse(result) == [kind |-> "created", body |-> result]

\* a request the router has not received yet
IdleRequest ==
    [pc |-> "idle", name |-> "", result |-> [agent |-> ""], response |-> NoResponse,
     task |-> "none", fetched |-> <<>>, log |-> <<>>]

\* the handler is entered and awaits AgentService.register({ name, ... })
RegisterRequest(r, name) ==
    /\ registrations[r].pc = "idle"
    /\ registrations' = [registrations EXCEPT ![r].pc = "registering", ![r].name = name]
    /\ UNCHANGED <<env, file, remote, calls, db, purchases>>

\* register resolves: the background function runs up to its await of fetch, then
\* the handler sends the response
RegisterResolved(r) ==
    /\ registrations[r].pc = "registering"
    /\ registrations' = [registrations EXCEPT
                           ![r].pc = "responded",
                           ![r].result = [agent |-> registrations[r].name],
                           ![r].task = "fetching",
                           ![r].fetched = <<[method |-> "POST",
                                             serviceName |-> registrations[r].name]>>,
                           ![r].response = CreatedResponse([agent |-> registrations[r].name])]
    /\ UNCHANGED <<env, file, remote, calls, db, purchases>>

\* register throws: asyncHandler hands the error to the error middleware
RegisterRejected(r, error) ==
    /\ registrations[r].pc = "registering"
    /\ registrations' = [registrations EXCEPT
                           ![r].pc = "failed",
                           ![r].response = [kind |-> "error", error |-> error]]
    /\ UNCHANGED <<env, file, remote, calls, db, purchases>>

\* await fetch(...) resolves, whatever the status of the deployer's answer
FetchResolved(r) ==
    /\ registrations[r].task = "fetching"
    /\ registrations' = [registrations EXCEPT ![r].task = "settled"]
    /\ UNCHANGED <<env, file, remote, calls, db, purchases>>

\* a background function without its try block: the failure reaches the response
FetchRejectedUnguarded(r, error) ==
    /\ registrations[r].task = "fetching"
    /\ registrations' = [registrations EXCEPT
                           ![r].task = "settled",
                           ![r].response = [kind |-> "error", error |-> error]]
    /\ UNCHANGED <<env, file, remote, calls, db, purchases>>

\* await fetch(...) throws: the catch block logs the message
FetchRejected(r, error) ==
    /\ registrations[r].task = "fetching"
    /\ registrations' = [registrations EXCEPT
                           ![r].task = "logged",
                           ![r].log = Append(registrations[r].log,
                                             [agent |-> registrations[r].name,
                                              message |-> error])]
    /\ UNCHANGED <<env, file, remote, calls, db, purchases>>

AgentNames     == {"alice", "bob", "carol"}
RegisterErrors == {"name taken", "database down"}
FetchErrors    == {"fetch failed"}
Registrants    == {"r1", "r2"}

InitRegister ==
    /\ env = EnvUnset
    /\ file = DefaultFile
    /\ remote = {}
    /\ calls = <<>>
    /\ registrations = [r \in Registrants |-> IdleRequest]
    /\ db = <<>>
    /\ purchases = <<>>

NextRegister ==
    \E r \in Registrants :
       \/ \E name \in AgentNames : RegisterRequest(r, name)
       \/ RegisterResolved(r)
       \/ \E error \in RegisterErrors : RegisterRejected(r, error)
       \/ FetchResolved(r)
       \/ \E error \in FetchErrors : FetchRejected(r, error)

SpecRegister == InitRegister /\ [][NextRegister]_vars

(***************************************************************************)
(* MarketplaceService.buyListing: one database transaction per purchase    *)
(***************************************************************************)
\* rows[0] of a result without rows
NoListing == [id |-> "none", agent_id |-> "none", price_credits |-> 0, is_active |-> FALSE]
NoAgent   == [id |-> "none", credits |-> 0]

NotFoundError(what) == [class |-> "NotFoundError", message |-> what]

ForbiddenError(message, hint) ==
    [class |-> "ForbiddenError", message |-> message, hint |-> hint]

\* the error of a transaction the database chose as the victim of a deadlock
DeadlockError == [class |-> "DatabaseError", message |-> "deadlock detected"]

\* a purchase that has not been requested yet
IdlePurchase ==
    [pc |-> "idle", listingId |-> "none", buyerId |-> "none", listing |-> NoListing,
     buyer |-> NoAgent, seller |-> NoAgent, debit |-> 0, credit |-> 0, order |-> <<>>,
     err |-> NoError, result |-> <<>>]

\* a database whose SELECT ... FOR UPDATE never waits
NeverLocked(t, row) == TRUE

\* FOR UPDATE on a row: granted when no other transaction holds the row
Available(t, row) == db.locks[row] \in {"none", t}

\* the row locks once the transaction t has ended
Released(t) ==
    [row \in DOMAIN db.locks |-> IF db.locks[row] = t THEN "none" ELSE db.locks[row]]

\* a commit that forgets the credit of the seller
ApplyDebitOnly(credits, p) ==
    [a \in DOMAIN credits |-> credits[a] - (IF a = p.buyer.id THEN p.debit ELSE 0)]

\* the agents table after the two UPDATE statements of p are committed
Apply(credits, p) ==
    [a \in DOMAIN credits |->
       credits[a] - (IF a = p.buyer.id THEN p.debit ELSE 0)
                  + (IF a = p.seller.id THEN p.credit ELSE 0)]

\* the callback throws: transaction() rolls back, which releases the locks
Throw(t, error) ==
    /\ purchases' = [purchases EXCEPT ![t].pc = "rejected", ![t].err = error]
    /\ db' = [db EXCEPT !.locks = Released(t)]

\* buyListing is called: the transaction begins and asks for the listing row
BuyStart(t, listingId, buyerId) ==
    /\ purchases[t].pc = "idle"
    /\ purchases' = [purchases EXCEPT ![t].pc = "lockListing",
                                      ![t].listingId = listingId,
                                      ![t].buyerId = buyerId]
    /\ UNCHANGED <<env, file, remote, calls, registrations, db>>

\* the SELECT ... FOR UPDATE of the listing returns; the two checks after it
ListingLocked(t) ==
    /\ purchases[t].pc = "lockListing"
    /\ purchases[t].listingId \in DOMAIN db.listings =>
          Available(t, purchases[t].listingId)
    /\ IF \/ purchases[t].listingId \notin DOMAIN db.listings
          \/ ~db.listings[purchases[t].listingId].is_active
       THEN Throw(t, NotFoundError("Listing"))
       ELSE IF db.listings[purchases[t].listingId].agent_id = purchases[t].buyerId
       THEN Throw(t, BadRequestError("You cannot buy your own listing"))
       ELSE /\ purchases' = [purchases EXCEPT
                               ![t].pc = "lockBuyer",
                               ![t].listing = db.listings[purchases[t].listingId]]
            /\ db' = [db EXCEPT !.locks[purchases[t].listingId] = t]
    /\ UNCHANGED <<env, file, remote, calls, registrations>>

\* the SELECT ... FOR UPDATE of the buyer returns
BuyerLocked(t) ==
    /\ purchases[t].pc = "lockBuyer"
    /\ purchases[t].buyerId \in DOMAIN db.credits => Available(t, purchases[t].buyerId)
    /\ IF purchases[t].buyerId \notin DOMAIN db.credits
       THEN Throw(t, NotFoundError("Buyer"))
       ELSE /\ purchases' = [purchases EXCEPT
                               ![t].pc = "lockSeller",
                               ![t].buyer = [id |-> purchases[t].buyerId,
                                             credits |-> db.credits[purchases[t].buyerId]]]
            /\ db' = [db EXCEPT !.locks[purchases[t].buyerId] = t]
    /\ UNCHANGED <<env, file, remote, calls, registrations>>

\* the SELECT ... FOR UPDATE of the seller returns; the balance check after it
SellerLocked(t) ==
    /\ purchases[t].pc = "lockSeller"
    /\ purchases[t].listing.agent_id \in DOMAIN db.credits =>
          Available(t, purchases[t].listing.agent_id)
    /\ IF purchases[t].listing.agent_id \notin DOMAIN db.credits
       THEN Throw(t, NotFoundError("Seller"))
       ELSE IF purchases[t].buyer.credits < purchases[t].listing.price_credits
       THEN Throw(t, ForbiddenError("Insufficient credits to buy this listing",
                                    "Top up your credits before purchasing"))
       ELSE /\ purchases' = [purchases EXCEPT
                               ![t].pc = "debit",
                               ![t].seller =
                                   [id |-> purchases[t].listing.agent_id,
                                    credits |-> db.credits[purchases[t].listing.agent_id]]]
            /\ db' = [db EXCEPT !.locks[purchases[t].listing.agent_id] = t]
    /\ UNCHANGED <<env, file, remote, calls, registrations>>

\* UPDATE agents SET credits = credits - $2 returns
Debited(t) ==
    /\ purchases[t].pc = "debit"
    /\ purchases' = [purchases EXCEPT ![t].pc = "credit",
                                      ![t].debit = purchases[t].listing.price_credits]
    /\ UNCHANGED <<env, file, remote, calls, registrations, db>>

\* UPDATE agents SET credits = credits + $2 returns
Credited(t) ==
    /\ purchases[t].pc = "credit"
    /\ purchases' = [purchases EXCEPT ![t].pc = "insertOrder",
                                      ![t].credit = purchases[t].listing.price_credits]
    /\ UNCHANGED <<env, file, remote, calls, registrations, db>>

\* INSERT INTO marketplace_orders returns and the callback returns its result
OrderInserted(t) ==
    /\ purchases[t].pc = "insertOrder"
    /\ purchases' = [purchases EXCEPT
                       ![t].pc = "commit",
                       ![t].order = <<[listing_id    |-> purchases[t].listingId,
                                       buyer_id      |-> purchases[t].buyer.id,
                                       seller_id     |-> purchases[t].seller.id,
                                       price_credits |-> purchases[t].listing.price_credits]>>]
    /\ UNCHANGED <<env, file, remote, calls, registrations, db>>

\* transaction() commits: the writes become visible and the locks are released
Committed(t) ==
    /\ purchases[t].pc = "commit"
    /\ db' = [db EXCEPT !.credits = Apply(db.credits, purchases[t]),
                        !.orders  = db.orders \o purchases[t].order,
                        !.locks   = Released(t)]
    /\ purchases' = [purchases EXCEPT
                       ![t].pc = "committed",
                       ![t].result = <<[order |-> purchases[t].order[1],
                                        listingId |-> purchases[t].listing.id]>>]
    /\ UNCHANGED <<env, file, remote, calls, registrations>>

\* the row the pending FOR UPDATE of t asks for
WantedRow(t) ==
    CASE purchases[t].pc = "lockListing" -> purchases[t].listingId
      [] purchases[t].pc = "lockBuyer"   -> purchases[t].buyerId
      [] purchases[t].pc = "lockSeller"  -> purchases[t].listing.agent_id
      [] OTHER -> "none"

\* t waits for a row that u holds
WaitsFor(t, u) ==
    /\ t # u
    /\ WantedRow(t) \in DOMAIN db.locks
    /\ db.locks[WantedRow(t)] = u

\* the database finds t and another transaction waiting for each other and ends t
DeadlockDetected(t) ==
    /\ \E u \in DOMAIN purchases : WaitsFor(t, u) /\ WaitsFor(u, t)
    /\ purchases' = [purchases EXCEPT ![t].pc = "aborted", ![t].err = DeadlockError]
    /\ db' = [db EXCEPT !.locks = Released(t)]
    /\ UNCHANGED <<env, file, remote, calls, registrations>>

PurchaseStep(t) ==
    \/ ListingLocked(t)
    \/ BuyerLocked(t)
    \/ SellerLocked(t)
    \/ Debited(t)
    \/ Credited(t)
    \/ OrderInserted(t)
    \/ Committed(t)
    \/ DeadlockDetected(t)

MaxCredits == 2

\* the agents that have a row; "ghost" is an id without one
AgentIds == {"alice", "bob"}

\* the listings table: one active listing of each agent, an archived one, and one
\* whose seller has no row; prices are what createListing admits (price >= 0)
Listings ==
    [la |-> [id |-> "la", agent_id |-> "alice", price_credits |-> 1, is_active |-> TRUE],
     lb |-> [id |-> "lb", agent_id |-> "bob", price_credits |-> MaxCredits,
             is_active |-> TRUE],
     lc |-> [id |-> "lc", agent_id |-> "alice", price_credits |-> 1, is_active |-> FALSE],
     lg |-> [id |-> "lg", agent_id |-> "ghost", price_credits |-> 0, is_active |-> TRUE]]

Purchasers == {"t1", "t2"}

InitBuy ==
    /\ env = EnvUnset
    /\ file = DefaultFile
    /\ remote = {}
    /\ calls = <<>>
    /\ registrations = <<>>
    /\ \E credits \in [AgentIds -> 0..MaxCredits] :
          db = [credits  |-> credits,
                listings |-> Listings,
                orders   |-> <<>>,
                locks    |-> [row \in AgentIds \cup DOMAIN Listings |-> "none"]]
    /\ purchases = [t \in Purchasers |-> IdlePurchase]

NextBuy ==
    \E t \in Purchasers :
       \/ \E listingId \in DOMAIN Listings \cup {"lx"}, buyerId \in AgentIds \cup {"ghost"} :
             BuyStart(t, listingId, buyerId)
       \/ PurchaseStep(t)

SpecBuy == InitBuy /\ [][NextBuy]_vars

\* every transaction that can take a step eventually takes one
FairBuy == SpecBuy /\ \A t \in Purchasers : WF_vars(PurchaseStep(t))

(***************************************************************************)
(* Properties of the reconciliation                                        *)
(***************************************************************************)
\* projects/{projectId}/locations/{region}/services/{serviceName} of a call
AddressOf(call) ==
    Str(<<"p", "r", "o", "j", "e", "c", "t", "s", "/">> \o call.projectId.str
        \o <<"/", "l", "o", "c", "a", "t", "i", "o", "n", "s", "/">> \o call.region.str
        \o <<"/", "s", "e", "r", "v", "i", "c", "e", "s", "/">>
        \o Prop(call.options, "serviceName").str)

\* the value a finished call returned is a DeployResult for the service it was given
IsDeployResult(call) ==
    /\ T(call.result) = "obj"
    /\ DOMAIN call.result.obj = {"status", "serviceUrl", "reconciling", "serviceName",
                                 "region", "latestReadyRevision"}
    /\ call.result.obj.status \in {Str(<<"R", "E", "A", "D", "Y">>),
                                   Str(<<"R", "E", "C", "O", "N", "C", "I", "L", "I", "N",
                                         "G">>)}
    /\ T(call.result.obj.serviceUrl) = "str"
    /\ Len(call.result.obj.serviceUrl.str) > 0
    /\ call.result.obj.serviceName = Prop(call.options, "serviceName")

\* the second request of a call is an update, addressed to the service's full name,
\* that carries the spec of the create request
SentUpdate(call) ==
    /\ Len(call.sent) = 2
    /\ call.sent[1].rpc = "createService"
    /\ call.sent[2].rpc = "updateService"
    /\ Prop(call.sent[2].service, "name") = AddressOf(call)
    /\ \A f \in DOMAIN call.sent[1].service.obj :
          f # "name" => Prop(call.sent[2].service, f) = call.sent[1].service.obj[f]
    /\ DOMAIN call.sent[2].service.obj = DOMAIN call.sent[1].service.obj \cup {"name"}

\* C1: a call whose create request, or the wait on its operation, failed with the
\* already-exists signal has not failed: it has sent an update addressed to
\* projects/{projectId}/locations/{region}/services/{serviceName} carrying the spec,
\* and once it is finished it has returned a DeployResult.
C1_CollisionBecomesUpdate ==
    \A c \in DOMAIN calls :
       calls[c].err \in AlreadyExistsErrors =>
          /\ calls[c].pc \in {"updateRequest", "updateWait", "done"}
          /\ calls[c].thrown = NoError
          /\ SentUpdate(calls[c])
          /\ calls[c].pc = "done" => IsDeployResult(calls[c])

\* a call has collided, updated and returned
C1_Witness ==
    \E c \in DOMAIN calls :
       /\ calls[c].err \in AlreadyExistsErrors
       /\ calls[c].pc = "done"
       /\ SentUpdate(calls[c])

\* d finished by creating the service, and c was then started with the same input
Resubmitted(c, d) ==
    /\ d \in calls[c].after
    /\ calls[c].options = calls[d].options
    /\ calls[d].pc = "done"
    /\ Len(calls[d].sent) = 1

\* C2: when deploy is called again with an identical input after a first call has
\* created the service, the second call's create is never accepted: it goes through
\* the update branch, and its DeployResult has the serviceUrl, serviceName and region
\* of the first.
C2_ResubmissionIsIdempotent ==
    \A c, d \in DOMAIN calls :
       Resubmitted(c, d) =>
          /\ calls[c].pc # "createWait"
          /\ calls[c].pc \in {"updateRequest", "updateWait", "done"} => SentUpdate(calls[c])
          /\ calls[c].pc = "done" =>
                /\ IsDeployResult(calls[c])
                /\ \A f \in {"serviceUrl", "serviceName", "region"} :
                      calls[c].result.obj[f] = calls[d].result.obj[f]

\* both calls of a resubmission have returned
C2_Witness ==
    \E c, d \in DOMAIN calls :
       /\ Resubmitted(c, d)
       /\ calls[c].pc = "done"
       /\ SentUpdate(calls[c])

\* C4 (as stated): every call that failed after it had sent a request to the control
\* plane threw one of the classified errors, never the transport's own exception.
C4_FailuresAreClassified ==
    \A c \in DOMAIN calls :
       (calls[c].pc = "failed" /\ Len(calls[c].sent) > 0) =>
          calls[c].thrown.class \in {"ApiError", "InternalError"}

\* C5 (as stated): every call that failed on a credentials failure of the control
\* plane threw the 503 credentials error with its remediation hint.
C5_CredentialFailureIsAuthError ==
    \A c \in DOMAIN calls :
       (calls[c].pc = "failed" /\ calls[c].err \in CredentialErrors) =>
          /\ calls[c].thrown.class = "ApiError"
          /\ calls[c].thrown.statusCode = CredentialsStatus
          /\ calls[c].thrown.code = "GCP_CREDENTIALS_MISSING"
          /\ calls[c].thrown.hint # ""


(***************************************************************************)
(* Properties of the validation                                            *)
(***************************************************************************)
\* a string that holds nothing but white space, or no string at all
IsEmptyText(x) == T(x) # "str" \/ \A i \in 1..Len(x.str) : x.str[i] \in WhiteSpace

\* the DNS-label grammar: lowercase alphanumerics and inner hyphens
IsDnsLabel(x) ==
    /\ T(x) = "str"
    /\ Len(x.str) > 0
    /\ \A i \in 1..Len(x.str) : x.str[i] \in LowerCase \cup Digits \cup {"-"}
    /\ x.str[1] # "-"
    /\ x.str[Len(x.str)] # "-"

\* <integer><Mi|Gi>
IsMemoryText(x) ==
    /\ T(x) = "str"
    /\ \E n \in 1..(Len(x.str) - 2) :
          /\ \A i \in 1..n : x.str[i] \in Digits
          /\ SubSeq(x.str, n + 1, Len(x.str)) \in {<<"M", "i">>, <<"G", "i">>}

\* a non-negative integer
IsCount(x) == T(x) = "num" /\ x.num >= 0

\* a limit or a bound that is set
IsSet(x) == ~IsNullish(x) /\ x # Str(<<>>)

\* the merged spec of a call as a document tree, and the parts the rules speak of
MergedTree(call)      == Read(call.h, call.serviceSpec)
MergedContainer(call) == At(Prop(Prop(MergedTree(call), "template"), "containers"), 0)
MergedLimits(call)    == Prop(Prop(MergedContainer(call), "resources"), "limits")
MergedScaling(call)   == Prop(Prop(MergedTree(call), "template"), "scaling")

\* the rules the merged spec of a call violates, by the field each is reported under
SpecRulesViolated(call) ==
    {r \in {"containerImage", "resources.cpu", "resources.memory", "minInstances",
            "maxInstances", "scaling"} :
       CASE r = "containerImage" -> IsEmptyText(Prop(MergedContainer(call), "image"))
         [] r = "resources.cpu" ->
              /\ IsSet(Prop(MergedLimits(call), "cpu"))
              /\ Prop(MergedLimits(call), "cpu") \notin
                    {Str(<<"1">>), Str(<<"2">>), Str(<<"4">>), Str(<<"8">>)}
         [] r = "resources.memory" ->
              /\ IsSet(Prop(MergedLimits(call), "memory"))
              /\ ~IsMemoryText(Prop(MergedLimits(call), "memory"))
         [] r = "minInstances" ->
              /\ IsSet(Prop(MergedScaling(call), "minInstanceCount"))
              /\ ~IsCount(Prop(MergedScaling(call), "minInstanceCount"))
         [] r = "maxInstances" ->
              /\ IsSet(Prop(MergedScaling(call), "maxInstanceCount"))
              /\ ~IsCount(Prop(MergedScaling(call), "maxInstanceCount"))
         [] r = "scaling" ->
              /\ T(Prop(MergedScaling(call), "minInstanceCount")) = "num"
              /\ T(Prop(MergedScaling(call), "maxInstanceCount")) = "num"
              /\ Prop(MergedScaling(call), "minInstanceCount").num
                    > Prop(MergedScaling(call), "maxInstanceCount").num}

\* the rules the identity of a call violates
IdentityRulesViolated(call) ==
    {r \in {"serviceName", "projectId", "region"} :
       CASE r = "serviceName" -> ~IsDnsLabel(call.serviceId)
         [] r = "projectId"   -> IsEmptyText(call.projectId)
         [] r = "region"      -> IsEmptyText(call.region)}

\* every rule a started call violates; the rules of the spec count once it is merged
RulesViolated(call) ==
    IdentityRulesViolated(call)
    \cup (IF T(call.serviceSpec) = "ref" THEN SpecRulesViolated(call) ELSE {})

\* the fields of the validation failure a call reported
FieldsReported(call) ==
    IF call.thrown.class = "ValidationError"
    THEN {call.thrown.errors[i].field : i \in 1..Len(call.thrown.errors)}
    ELSE {}

\* the template document was read and is a mapping
TemplateLoaded == file.kind = "doc" /\ T(file.doc) = "obj"

\* C3: a deploy call whose merged spec or identity violates a validation rule sends
\* neither a create nor an update request, so the remote state is what it was; and a
\* call that ended in a validation error has sent nothing.
C3_NothingSentWhenInvalid ==
    \A c \in DOMAIN calls :
       /\ (calls[c].pc # "idle" /\ RulesViolated(calls[c]) # {}) =>
             /\ calls[c].sent = <<>>
             /\ calls[c].pc = "failed"
             /\ remote \subseteq {ExistingService}
       /\ calls[c].thrown.class \in {"ValidationError", "BadRequestError"} =>
             calls[c].sent = <<>>

\* the scenario of the invalid memory unit: rejected citing resources.memory
C3_Witness ==
    \E c \in DOMAIN calls :
       /\ Prop(Prop(calls[c].options, "resources"), "memory") = Str(S_2GB)
       /\ RulesViolated(calls[c]) = {"resources.memory"}
       /\ FieldsReported(calls[c]) = {"resources.memory"}
       /\ calls[c].sent = <<>>

\* C6 (as stated): whatever rules the input of a deploy call violates, the call fails
\* with a validation failure that lists exactly one entry for each of them.
C6_EveryViolationListed ==
    \A c \in DOMAIN calls :
       (TemplateLoaded /\ calls[c].pc # "idle" /\ RulesViolated(calls[c]) # {}) =>
          /\ calls[c].thrown.class = "ValidationError"
          /\ FieldsReported(calls[c]) = RulesViolated(calls[c])
          /\ Len(calls[c].thrown.errors) = Cardinality(RulesViolated(calls[c]))

\* C7: an input that violates exactly the rules of the service name, the memory
\* string and min <= max is reported with exactly three entries: serviceName,
\* resources.memory and scaling.
C7_ThreeViolationsThreeEntries ==
    \A c \in DOMAIN calls :
       (/\ calls[c].pc # "idle"
        /\ RulesViolated(calls[c]) = {"serviceName", "resources.memory", "scaling"}) =>
          /\ calls[c].thrown.class = "ValidationError"
          /\ Len(calls[c].thrown.errors) = 3
          /\ FieldsReported(calls[c]) = {"serviceName", "resources.memory", "scaling"}

\* a call was given a bad service name, a bad memory string and min > max, and failed
C7_Witness ==
    \E c \in DOMAIN calls :
       /\ Prop(calls[c].options, "serviceName") = Str(<<"-", "B", "a", "d">>)
       /\ Prop(Prop(calls[c].options, "resources"), "memory") = Str(S_2GB)
       /\ Prop(calls[c].options, "minInstances") = Num(1)
       /\ Prop(calls[c].options, "maxInstances") = Num(0)
       /\ RulesViolated(calls[c]) = {"serviceName", "resources.memory", "scaling"}
       /\ calls[c].pc = "failed"


(***************************************************************************)
(* Properties of the merge                                                 *)
(***************************************************************************)
\* a call of applyOverrides that returned (and may have gone on to toApiShape)
HasMerged(call) == call.pc \in {"merged", "shaped"}

\* the base has a first container whose image is not the unresolved placeholder
HasResolvedContainer(doc) ==
    /\ T(At(Prop(Prop(doc, "template"), "containers"), 0)) = "obj"
    /\ Prop(At(Prop(Prop(doc, "template"), "containers"), 0), "image")
          # Str(PLACEHOLDER_IMAGE)

\* C8 (as stated): merge(base, {}) equals base in every field, for every base.
C8_MergeOfNothingIsBase ==
    \A c \in DOMAIN calls :
       (HasMerged(calls[c]) /\ calls[c].options = Obj(EmptyRec)) =>
          MergedTree(calls[c]) = file.doc

\* C8 (amended): merge(base, {}) equals base in every field, for every base that has
\* a first container whose image is not the placeholder.
C8_MergeOfNothingKeepsResolvedBase ==
    \A c \in DOMAIN calls :
       (/\ HasMerged(calls[c])
        /\ calls[c].options = Obj(EmptyRec)
        /\ HasResolvedContainer(file.doc)) =>
          MergedTree(calls[c]) = file.doc

\* a base with a real default image was merged with no overrides
C8_Witness ==
    \E c \in DOMAIN calls :
       /\ HasMerged(calls[c])
       /\ calls[c].options = Obj(EmptyRec)
       /\ HasResolvedContainer(file.doc)
       /\ Prop(MergedContainer(calls[c]), "image") = Str(S_image)

\* C9: applyOverrides does not mutate its base: after the call, and after toApiShape
\* has converted the timeout of the merged spec, the base is field for field the
\* document that was loaded.
C9_BaseIsNeverMutated ==
    \A c \in DOMAIN calls :
       calls[c].pc # "idle" => Read(calls[c].h, calls[c].base) = file.doc

\* overrides changed the merged spec, toApiShape changed its copy, the base is intact
C9_Witness ==
    \E c \in DOMAIN calls :
       /\ calls[c].pc = "shaped"
       /\ MergedTree(calls[c]) # file.doc
       /\ Read(calls[c].h, calls[c].apiSpec) # MergedTree(calls[c])
       /\ Read(calls[c].h, calls[c].base) = file.doc

\* C10 (as stated): after a merge with containerImage: "" the container image is the
\* empty string, whatever image the template held.
C10_EmptyImageClears ==
    \A c \in DOMAIN calls :
       (HasMerged(calls[c]) /\ Prop(calls[c].options, "containerImage") = Str(<<>>)) =>
          Prop(MergedContainer(calls[c]), "image") = Str(<<>>)


\* the first container of the base document, and the image override of a call
BaseContainer      == At(Prop(Prop(file.doc, "template"), "containers"), 0)
ImageOverride(call) == Prop(call.options, "containerImage")

\* C11: in a merge, a non-empty containerImage override becomes the merged image;
\* without an override a template image other than the placeholder is kept; without
\* an override and with the placeholder in the template the merged image is the
\* fallback image, and the spec shaped for the control plane carries it too.
C11_ImageResolution ==
    \A c \in DOMAIN calls :
       HasMerged(calls[c]) =>
          /\ (T(ImageOverride(calls[c])) = "str" /\ ImageOverride(calls[c]) # Str(<<>>)) =>
                Prop(MergedContainer(calls[c]), "image") = ImageOverride(calls[c])
          /\ (/\ ImageOverride(calls[c]) = Undef
              /\ T(BaseContainer) = "obj"
              /\ Prop(BaseContainer, "image") # Str(PLACEHOLDER_IMAGE)) =>
                Prop(MergedContainer(calls[c]), "image") = Prop(BaseContainer, "image")
          /\ (/\ ImageOverride(calls[c]) = Undef
              /\ Prop(BaseContainer, "image") = Str(PLACEHOLDER_IMAGE)) =>
                /\ Prop(MergedContainer(calls[c]), "image") =
                      Str(<<"g", "c", "r", ".", "i", "o", "/", "c", "l", "o", "u", "d", "r",
                            "u", "n", "/", "c", "o", "n", "t", "a", "i", "n", "e", "r", ":",
                            "h", "e", "l", "l", "o">>)
                /\ calls[c].pc = "shaped" =>
                      Prop(At(Prop(Prop(Read(calls[c].h, calls[c].apiSpec), "template"),
                                   "containers"), 0), "image")
                         # Str(PLACEHOLDER_IMAGE)

\* the shipped template was merged without an image override and then shaped
C11_Witness ==
    \E c \in DOMAIN calls :
       /\ calls[c].pc = "shaped"
       /\ ImageOverride(calls[c]) = Undef
       /\ Prop(BaseContainer, "image") = Str(PLACEHOLDER_IMAGE)
       /\ Prop(MergedContainer(calls[c]), "image") = Str(FALLBACK_IMAGE)


(***************************************************************************)
(* Properties of the duration adapter                                      *)
(***************************************************************************)
\* the number a run of decimal digits writes
RECURSIVE DecimalOf(_)
DecimalOf(d) ==
    IF d = <<>> THEN 0
    ELSE 10 * DecimalOf(SubSeq(d, 1, Len(d) - 1))
         + (CHOOSE v \in 0..9 :
               <<"0", "1", "2", "3", "4", "5", "6", "7", "8", "9">>[v + 1] = d[Len(d)])

IsDigits(d) == Len(d) > 0 /\ \A i \in 1..Len(d) : d[i] \in Digits

\* t without its trailing unit, if it has one
WithoutUnit(t) == IF Len(t) > 0 /\ t[Len(t)] = "s" THEN SubSeq(t, 1, Len(t) - 1) ELSE t

\* the Duration the specification gives a text <digits>[.<digits>][s] (up to nine
\* fractional digits); Undef for a text of another form
RECURSIVE TenTo(_)
TenTo(n) == IF n = 0 THEN 1 ELSE 10 * TenTo(n - 1)

ExpectedDuration(t) ==
    IF IsDigits(WithoutUnit(t))
    THEN Obj([seconds |-> Num(DecimalOf(WithoutUnit(t))), nanos |-> Num(0)])
    ELSE IF \E k \in 2..(Len(WithoutUnit(t)) - 1) :
               /\ WithoutUnit(t)[k] = "."
               /\ IsDigits(SubSeq(WithoutUnit(t), 1, k - 1))
               /\ IsDigits(SubSeq(WithoutUnit(t), k + 1, Len(WithoutUnit(t))))
               /\ Len(WithoutUnit(t)) - k <= 9
    THEN Obj([seconds |-> Num(DecimalOf(SubSeq(WithoutUnit(t), 1,
                                    (CHOOSE k \in 1..Len(t) : t[k] = ".") - 1))),
              nanos   |-> Num(DecimalOf(SubSeq(WithoutUnit(t),
                                    (CHOOSE k \in 1..Len(t) : t[k] = ".") + 1,
                                    Len(WithoutUnit(t))))
                              * TenTo(9 - (Len(WithoutUnit(t))
                                           - (CHOOSE k \in 1..Len(t) : t[k] = "."))))])
    ELSE Undef

\* C12: the duration adapter maps a timeout text <digits>[.<digits>] with an optional
\* trailing "s" to seconds = the integer part and nanos = the fractional digits
\* right-padded with zeros to nine digits; "300s" gives {300, 0}, "45" gives {45, 0}
\* and "1.250s" gives {1, 250000000}.
C12_DurationOfText ==
    \A c \in DOMAIN calls :
       (calls[c].pc = "parsed" /\ T(calls[c].options) = "str") =>
          /\ ExpectedDuration(calls[c].options.str) # Undef =>
                calls[c].result = ExpectedDuration(calls[c].options.str)
          /\ calls[c].options = Str(<<"3", "0", "0", "s">>) =>
                calls[c].result = Obj([seconds |-> Num(300), nanos |-> Num(0)])
          /\ calls[c].options = Str(<<"4", "5">>) =>
                calls[c].result = Obj([seconds |-> Num(45), nanos |-> Num(0)])
          /\ calls[c].options = Str(<<"1", ".", "2", "5", "0", "s">>) =>
                calls[c].result = Obj([seconds |-> Num(1), nanos |-> Num(250000000)])

\* the fractional example was converted
C12_Witness ==
    \E c \in DOMAIN calls :
       /\ calls[c].pc = "parsed"
       /\ calls[c].options = Str(<<"1", ".", "2", "5", "0", "s">>)
       /\ calls[c].result = Obj([seconds |-> Num(1), nanos |-> Num(250000000)])


(***************************************************************************)
(* Properties of the shape adapter                                         *)
(***************************************************************************)
\* two document trees agree in every field but template.timeout
SameButTimeout(a, b) ==
    /\ T(a) = "obj" /\ T(b) = "obj"
    /\ DOMAIN a.obj = DOMAIN b.obj
    /\ \A f \in DOMAIN a.obj \ {"template"} : a.obj[f] = b.obj[f]
    /\ T(Prop(a, "template")) = "obj" /\ T(Prop(b, "template")) = "obj"
    /\ DOMAIN a.obj.template.obj = DOMAIN b.obj.template.obj
    /\ \A f \in DOMAIN a.obj.template.obj \ {"timeout"} :
          a.obj.template.obj[f] = b.obj.template.obj[f]

\* C13: a call of toApiShape returns a transport spec that equals the merged spec in
\* every field other than template.timeout, and leaves the merged spec it was given
\* field for field as it was.
C13_ShapeChangesOnlyTimeout ==
    [][\A c \in DOMAIN calls :
          (calls[c].pc = "merged" /\ calls'[c].pc = "shaped") =>
             /\ SameButTimeout(Read(calls'[c].h, calls'[c].apiSpec), MergedTree(calls[c]))
             /\ Read(calls'[c].h, calls'[c].serviceSpec) = MergedTree(calls[c])
             /\ calls'[c].serviceSpec = calls[c].serviceSpec]_vars

\* a merged spec with a timeout text was shaped: the transport spec holds a Duration
C13_Witness ==
    \E c \in DOMAIN calls :
       /\ calls[c].pc = "shaped"
       /\ T(Prop(Prop(MergedTree(calls[c]), "template"), "timeout")) = "str"
       /\ T(Prop(Prop(Read(calls[c].h, calls[c].apiSpec), "template"), "timeout")) = "obj"
       /\ SameButTimeout(Read(calls[c].h, calls[c].apiSpec), MergedTree(calls[c]))


(***************************************************************************)
(* Properties of the life of a deploy call                                 *)
(***************************************************************************)
\* where a call stands: PENDING before it has submitted anything, CREATING while the
\* create request or its operation is awaited, UPDATING while the update request or
\* its operation is awaited, then READY / RECONCILING (returned) or FAILED (thrown)
Phase(call) ==
    CASE call.pc = "idle" -> "PENDING"
      [] call.pc \in {"createRequest", "createWait"} -> "CREATING"
      [] call.pc \in {"updateRequest", "updateWait"} -> "UPDATING"
      [] call.pc = "failed" -> "FAILED"
      [] call.pc = "done" -> IF call.result.obj.status = Str(<<"R", "E", "A", "D", "Y">>)
                             THEN "READY" ELSE "RECONCILING"

Terminal == {"FAILED", "READY", "RECONCILING"}

\* the requests of one kind a call has sent
Requests(call, rpc) == {i \in 1..Len(call.sent) : call.sent[i].rpc = rpc}

\* C14: a deploy call moves only from PENDING to CREATING (or to FAILED before it
\* has sent anything), from CREATING to READY, RECONCILING, FAILED or, through the
\* conflict, to UPDATING, and from UPDATING to READY, RECONCILING or FAILED; it enters
\* UPDATING only on a create rejected as already existing; a call in a terminal state
\* does not change any more; and a call has sent at most one create request and at
\* most one update request.
C14_CallLifeCycle ==
    [][\A c \in DOMAIN calls :
          /\ Phase(calls[c]) # Phase(calls'[c]) =>
                \/ /\ Phase(calls[c]) = "PENDING"
                   /\ Phase(calls'[c]) = "CREATING"
                \/ /\ Phase(calls[c]) = "PENDING"
                   /\ Phase(calls'[c]) = "FAILED"
                   /\ calls'[c].sent = <<>>
                \/ /\ Phase(calls[c]) = "CREATING"
                   /\ Phase(calls'[c]) \in Terminal
                \/ /\ Phase(calls[c]) = "CREATING"
                   /\ Phase(calls'[c]) = "UPDATING"
                   /\ calls'[c].err \in AlreadyExistsErrors
                \/ /\ Phase(calls[c]) = "UPDATING"
                   /\ Phase(calls'[c]) \in Terminal
          /\ Phase(calls[c]) \in Terminal => calls'[c] = calls[c]
          /\ Cardinality(Requests(calls'[c], "createService")) <= 1
          /\ Cardinality(Requests(calls'[c], "updateService")) <= 1
          /\ Phase(calls'[c]) = "CREATING" =>
                Requests(calls'[c], "updateService") = {}]_vars

\* a call went through the conflict and the update and returned while reconciling
C14_Witness ==
    \E c \in DOMAIN calls :
       /\ Phase(calls[c]) = "RECONCILING"
       /\ Requests(calls[c], "createService") = {1}
       /\ Requests(calls[c], "updateService") = {2}


\* C15: a call returns a result only in the step in which the operation of its last
\* request (the create, or the update after a collision) completes, so that the
\* control plane then holds the submitted spec at the generation of the returned
\* resource; the result's reconciling flag is the flag of that resource, and status
\* is RECONCILING exactly when the flag is true and READY otherwise.
C15_ResultAfterOperation ==
    [][\A c \in DOMAIN calls :
          (calls[c].pc # "done" /\ calls'[c].pc = "done") =>
             /\ \/ /\ calls[c].pc = "createWait"
                   /\ LastRequest(calls[c]).rpc = "createService"
                \/ /\ calls[c].pc = "updateWait"
                   /\ LastRequest(calls[c]).rpc = "updateService"
             /\ \E s \in remote' :
                   /\ s.name = RequestName(LastRequest(calls[c]))
                   /\ s.spec = LastRequest(calls[c]).service
                   /\ Num(s.generation) = Prop(calls'[c].service, "generation")
             /\ Prop(calls'[c].service, "reconciling") \in {Bool(TRUE), Bool(FALSE)}
             /\ calls'[c].result.obj.reconciling = Prop(calls'[c].service, "reconciling")
             /\ calls'[c].result.obj.status =
                   Str(<<"R", "E", "C", "O", "N", "C", "I", "L", "I", "N", "G">>)
                <=> calls'[c].result.obj.reconciling = Bool(TRUE)
             /\ calls'[c].result.obj.status = Str(<<"R", "E", "A", "D", "Y">>)
                <=> calls'[c].result.obj.reconciling = Bool(FALSE)]_vars

\* one call returned READY from its create, another RECONCILING from its update
C15_Witness ==
    \E c, d \in DOMAIN calls :
       /\ calls[c].pc = "done"
       /\ Len(calls[c].sent) = 1
       /\ Prop(calls[c].service, "reconciling") = Bool(FALSE)
       /\ calls[c].result.obj.status = Str(<<"R", "E", "A", "D", "Y">>)
       /\ calls[d].pc = "done"
       /\ Len(calls[d].sent) = 2
       /\ Prop(calls[d].service, "reconciling") = Bool(TRUE)
       /\ calls[d].result.obj.reconciling = Bool(TRUE)


(***************************************************************************)
(* Properties of concurrent calls                                          *)
(***************************************************************************)
\* the call finished through its create request alone
Created(call) == call.pc = "done" /\ Len(call.sent) = 1

\* both calls have submitted a create request for the same full service name
SameIdentity(c, d) ==
    /\ Len(calls[c].sent) > 0
    /\ Len(calls[d].sent) > 0
    /\ RequestName(calls[c].sent[1]) = RequestName(calls[d].sent[1])

\* C16: of two calls for the same full service name at most one finishes through its
\* create; a call whose create was rejected as already existing has not failed but
\* has sent an update for the same name; and the control plane never holds two
\* services with one name.
C16_ConcurrentCallsConverge ==
    /\ \A c, d \in DOMAIN calls :
          (c # d /\ SameIdentity(c, d) /\ Created(calls[c])) => ~Created(calls[d])
    /\ \A c \in DOMAIN calls :
          calls[c].err \in AlreadyExistsErrors =>
             /\ calls[c].pc # "failed"
             /\ Len(calls[c].sent) = 2
             /\ calls[c].sent[2].rpc = "updateService"
             /\ RequestName(calls[c].sent[2]) = RequestName(calls[c].sent[1])
    /\ \A s, t \in remote : s.name = t.name => s = t

\* two calls were in flight together for one name: one created the service, the
\* other collided, updated it and returned
C16_Witness ==
    \E c, d \in DOMAIN calls :
       /\ c # d
       /\ SameIdentity(c, d)
       /\ c \notin calls[d].after
       /\ d \notin calls[c].after
       /\ Created(calls[d])
       /\ calls[c].err \in AlreadyExistsErrors
       /\ calls[c].pc = "done"
       /\ \E s \in remote : s.name = RequestName(calls[c].sent[1]) /\ s.generation = 2


(***************************************************************************)
(* Properties of template loading                                          *)
(***************************************************************************)
\* the document is a tree with a template section
HasTemplateSection(doc) ==
    /\ T(doc) = "obj"
    /\ "template" \in DOMAIN doc.obj
    /\ T(doc.obj.template) = "obj"

\* the call got as far as loading the template (lines 245-251)
ReachedLoad(call) == call.pc # "idle" /\ ~Blank(call.projectId)

\* C17 (as stated): a call that reaches the load of the template fails with the load
\* error when the file cannot be read, and with the parse error when the file cannot
\* be parsed or its document is not a tree with a template section; in each of these
\* cases no request has been sent to the control plane.
C17_LoadFailuresEndDeploy ==
    \A c \in DOMAIN calls :
       ReachedLoad(calls[c]) =>
          /\ file.kind = "unreadable" =>
                /\ calls[c].pc = "failed"
                /\ calls[c].thrown.class = "InternalError"
                /\ calls[c].thrown.message = "Failed to load Cloud Run template: "
                /\ calls[c].sent = <<>>
          /\ (file.kind = "invalid" \/ (file.kind = "doc" /\ ~HasTemplateSection(file.doc))) =>
                /\ calls[c].pc = "failed"
                /\ calls[c].thrown.class = "InternalError"
                /\ calls[c].thrown.message = "Invalid Cloud Run template YAML: "
                /\ calls[c].sent = <<>>


(***************************************************************************)
(* Properties of the environment merge                                     *)
(***************************************************************************)
\* the position of the first '=' of a text, 0 when it has none
FirstEquals(s) ==
    IF \E i \in 1..Len(s) : s[i] = "="
    THEN CHOOSE i \in 1..Len(s) : s[i] = "=" /\ \A k \in 1..(i - 1) : s[k] # "="
    ELSE 0

\* the pair a "KEY=VALUE" text stands for
PairOf(s) ==
    IF FirstEquals(s) = 0
    THEN Obj([name |-> Str(s), value |-> Str(<<>>)])
    ELSE Obj([name  |-> Str(SubSeq(s, 1, FirstEquals(s) - 1)),
              value |-> Str(SubSeq(s, FirstEquals(s) + 1, Len(s)))])

\* the environment list the merge starts from: the template container's, or the
\* empty one of the container the merge builds
TemplateEnv ==
    IF T(BaseContainer) = "obj" THEN Prop(BaseContainer, "env") ELSE Arr(<<>>)

EnvOverride(call) == Prop(call.options, "env")
MergedEnv(call)   == Prop(MergedContainer(call), "env")

\* C18: after a merge with a non-empty env override the container's environment list
\* has exactly one entry for each entry of the override, in order, and nothing of the
\* template's list; a text entry gives the name before its first '=' and the value
\* after it (empty when there is none), a pair keeps its name; with an absent or
\* empty override the list is the template's.
C18_EnvironmentMerge ==
    \A c \in DOMAIN calls :
       HasMerged(calls[c]) =>
          IF T(EnvOverride(calls[c])) = "arr" /\ Len(EnvOverride(calls[c]).arr) > 0
          THEN /\ T(MergedEnv(calls[c])) = "arr"
               /\ Len(MergedEnv(calls[c]).arr) = Len(EnvOverride(calls[c]).arr)
               /\ \A i \in 1..Len(EnvOverride(calls[c]).arr) :
                     IF T(EnvOverride(calls[c]).arr[i]) = "str"
                     THEN MergedEnv(calls[c]).arr[i] = PairOf(EnvOverride(calls[c]).arr[i].str)
                     ELSE /\ Prop(MergedEnv(calls[c]).arr[i], "name")
                                = Prop(EnvOverride(calls[c]).arr[i], "name")
                          /\ T(Prop(MergedEnv(calls[c]).arr[i], "value")) = "str"
          ELSE MergedEnv(calls[c]) = TemplateEnv

\* a template with an environment entry was merged with a list whose first text has
\* two '=' and whose second has none
C18_Witness ==
    \E c \in DOMAIN calls :
       /\ HasMerged(calls[c])
       /\ T(TemplateEnv) = "arr"
       /\ Len(TemplateEnv.arr) > 0
       /\ T(EnvOverride(calls[c])) = "arr"
       /\ Len(EnvOverride(calls[c]).arr) = 6
       /\ MergedEnv(calls[c]).arr[1] = Obj([name  |-> Str(<<"K">>),
                                            value |-> Str(<<"a", "=", "b">>)])
       /\ MergedEnv(calls[c]).arr[2] = Obj([name  |-> Str(<<"K", "E", "Y">>),
                                            value |-> Str(<<>>)])
       /\ \A i \in 1..6 : MergedEnv(calls[c]).arr[i] \notin
                             {TemplateEnv.arr[j] : j \in 1..Len(TemplateEnv.arr)}


(***************************************************************************)
(* Properties of the resource and scaling merge                            *)
(***************************************************************************)
BaseResources == Prop(BaseContainer, "resources")
BaseLimits    == Prop(BaseResources, "limits")
BaseScaling   == Prop(Prop(file.doc, "template"), "scaling")

MergedResources(call) == Prop(MergedContainer(call), "resources")
ResourceOverride(call, f) == Prop(Prop(call.options, "resources"), f)

\* the value a field has after the merge: the override when there is one, else the
\* template's
Overridden(given, override, template) == IF given THEN override ELSE template

\* C19: after a merge, each of the cpu limit, the memory limit, the always-on-CPU
\* flag and the two scaling bounds is its own override when that override is given
\* and the template's value when it is not, whichever of the other overrides are
\* given.
C19_LimitsMergeIndependently ==
    \A c \in DOMAIN calls :
       HasMerged(calls[c]) =>
          /\ Prop(MergedLimits(calls[c]), "cpu") =
                Overridden(ResourceOverride(calls[c], "cpu") # Undef,
                           Str(JsString(ResourceOverride(calls[c], "cpu"))),
                           Prop(BaseLimits, "cpu"))
          /\ Prop(MergedLimits(calls[c]), "memory") =
                Overridden(ResourceOverride(calls[c], "memory") # Undef,
                           Str(JsString(ResourceOverride(calls[c], "memory"))),
                           Prop(BaseLimits, "memory"))
          /\ Prop(MergedResources(calls[c]), "cpuIdle") =
                Overridden(ResourceOverride(calls[c], "cpuIdle") # Undef,
                           ResourceOverride(calls[c], "cpuIdle"),
                           Prop(BaseResources, "cpuIdle"))
          /\ Prop(MergedScaling(calls[c]), "minInstanceCount") =
                Overridden(Prop(calls[c].options, "minInstances") # Undef,
                           Prop(calls[c].options, "minInstances"),
                           Prop(BaseScaling, "minInstanceCount"))
          /\ Prop(MergedScaling(calls[c]), "maxInstanceCount") =
                Overridden(Prop(calls[c].options, "maxInstances") # Undef,
                           Prop(calls[c].options, "maxInstances"),
                           Prop(BaseScaling, "maxInstanceCount"))

\* only the memory limit and the upper bound were overridden, on a template that
\* sets the cpu limit and the lower bound: both kept, the flag still unset
C19_Witness ==
    \E c \in DOMAIN calls :
       /\ HasMerged(calls[c])
       /\ T(Prop(calls[c].options, "resources")) = "obj"
       /\ DOMAIN Prop(calls[c].options, "resources").obj = {"memory"}
       /\ Prop(calls[c].options, "minInstances") = Undef
       /\ Prop(calls[c].options, "maxInstances") = Num(MaxInstances)
       /\ Prop(BaseLimits, "cpu") = Str(<<"1">>)
       /\ Prop(MergedLimits(calls[c]), "cpu") = Str(<<"1">>)
       /\ Prop(MergedLimits(calls[c]), "memory") = Str(S_1Gi)
       /\ Prop(MergedLimits(calls[c]), "memory") # Prop(BaseLimits, "memory")
       /\ Prop(MergedResources(calls[c]), "cpuIdle") = Undef
       /\ Prop(MergedScaling(calls[c]), "minInstanceCount") = Num(0)
       /\ Prop(MergedScaling(calls[c]), "maxInstanceCount") = Num(MaxInstances)


(***************************************************************************)
(* Properties of the memory rule                                           *)
(***************************************************************************)
\* the memory limit of the merged spec of a call that got as far as the merge
MergedMemory(call) == Prop(MergedLimits(call), "memory")

\* C20: a deploy call whose merged spec has a memory limit that is not digits
\* followed by Mi or Gi has failed with a validation error that has an entry for
\* resources.memory, and has sent nothing; a call whose merged memory limit is unset
\* or has that form has no such entry.
C20_MemoryRule ==
    \A c \in DOMAIN calls :
       calls[c].serviceSpec # Undef =>
          IF Truthy(MergedMemory(calls[c])) /\ ~IsMemoryText(MergedMemory(calls[c]))
          THEN /\ calls[c].pc = "failed"
               /\ calls[c].thrown.class = "ValidationError"
               /\ \E i \in 1..Len(calls[c].thrown.errors) :
                     /\ calls[c].thrown.errors[i].field = "resources.memory"
                     /\ \A j \in 1..Len(calls[c].thrown.errors) :
                           calls[c].thrown.errors[j].field = "resources.memory" => j = i
               /\ calls[c].sent = <<>>
          ELSE "resources.memory" \notin FieldsReported(calls[c])

\* a call given memory "2GB" failed on it before sending, and the template's own
\* limit would have passed
C20_Witness ==
    \E c \in DOMAIN calls :
       /\ calls[c].serviceSpec # Undef
       /\ MergedMemory(calls[c]) = Str(S_2GB)
       /\ IsMemoryText(Prop(BaseLimits, "memory"))
       /\ calls[c].pc = "failed"
       /\ "resources.memory" \in FieldsReported(calls[c])
       /\ calls[c].sent = <<>>


(***************************************************************************)
(* Properties of the scaling bounds                                        *)
(***************************************************************************)
\* the scaling section of a spec given as a tree
ScalingOfTree(tree) == Prop(Prop(tree, "template"), "scaling")

\* each bound that is set is a non-negative integer, and min <= max when both are
SoundScaling(sc) ==
    /\ IsSet(Prop(sc, "minInstanceCount")) => IsCount(Prop(sc, "minInstanceCount"))
    /\ IsSet(Prop(sc, "maxInstanceCount")) => IsCount(Prop(sc, "maxInstanceCount"))
    /\ (IsCount(Prop(sc, "minInstanceCount")) /\ IsCount(Prop(sc, "maxInstanceCount"))) =>
          Prop(sc, "minInstanceCount").num <= Prop(sc, "maxInstanceCount").num

\* C21: every request a deploy call has sent carries a spec whose scaling bounds are
\* non-negative integers when set, with min <= max when both are set; and a call
\* whose merged spec breaks this has failed with a validation error on minInstances,
\* maxInstances or scaling and has sent nothing.
C21_SubmittedScalingIsSound ==
    \A c \in DOMAIN calls :
       /\ \A i \in 1..Len(calls[c].sent) :
             SoundScaling(ScalingOfTree(calls[c].sent[i].service))
       /\ (T(calls[c].serviceSpec) = "ref" /\ ~SoundScaling(MergedScaling(calls[c]))) =>
             /\ calls[c].pc = "failed"
             /\ calls[c].thrown.class = "ValidationError"
             /\ FieldsReported(calls[c]) \cap {"minInstances", "maxInstances", "scaling"} # {}
             /\ calls[c].sent = <<>>

\* one call was refused because its lower bound exceeds the template's upper bound
C21_Witness ==
    \E c \in DOMAIN calls :
       /\ Prop(calls[c].options, "maxInstances") = Undef
       /\ T(calls[c].serviceSpec) = "ref"
       /\ Prop(MergedScaling(calls[c]), "minInstanceCount") = Num(11)
       /\ Prop(MergedScaling(calls[c]), "maxInstanceCount") = Prop(BaseScaling, "maxInstanceCount")
       /\ FieldsReported(calls[c]) = {"scaling"}
       /\ calls[c].sent = <<>>

(***************************************************************************)
(* Properties of the service name rule                                     *)
(***************************************************************************)
\* the call got as far as validateConfig (line 258)
ReachedValidation(call) == T(call.serviceSpec) = "ref"

C24_LongNameRejected ==
    \A c \in DOMAIN calls :
       (/\ ReachedValidation(calls[c])
        /\ T(calls[c].serviceId) = "str"
        /\ Len(calls[c].serviceId.str) > DnsLabelMax) =>
          "serviceName" \in FieldsReported(calls[c])


(***************************************************************************)
(* Properties of the registration route                                    *)
(***************************************************************************)
\* C23: the deployment request of a registration is started only once register has
\* succeeded, in the step that also sends the registration response, so that the
\* response is out while the deployment is still pending; a response once sent never
\* changes; and a failed deployment request leaves one log entry and the response as
\* it was.
C23_RegistrationIsDetached ==
    [][\A r \in DOMAIN registrations :
          /\ registrations'[r].task # "none" =>
                /\ registrations'[r].pc = "responded"
                /\ registrations'[r].response =
                      CreatedResponse([agent |-> registrations'[r].name])
                /\ Len(registrations'[r].fetched) = 1
                /\ registrations'[r].fetched[1].serviceName = registrations'[r].name
          /\ (registrations[r].task = "none" /\ registrations'[r].task # "none") =>
                /\ registrations[r].pc = "registering"
                /\ registrations'[r].task = "fetching"
          /\ registrations'[r].pc = "failed" =>
                /\ registrations'[r].task = "none"
                /\ registrations'[r].fetched = <<>>
          /\ registrations[r].response # NoResponse =>
                registrations'[r].response = registrations[r].response
          /\ (registrations[r].task = "fetching" /\ registrations'[r].task = "logged") =>
                /\ Len(registrations'[r].log) = Len(registrations[r].log) + 1
                /\ registrations'[r].pc = registrations[r].pc]_vars

\* a registration was answered, its deployment request failed afterwards and was
\* logged, and the answer is still the created agent
C23_Witness ==
    \E r \in DOMAIN registrations :
       /\ registrations[r].pc = "responded"
       /\ registrations[r].task = "logged"
       /\ Len(registrations[r].log) = 1
       /\ registrations[r].response = CreatedResponse([agent |-> registrations[r].name])


(***************************************************************************)
(* Properties of the update request                                        *)
(***************************************************************************)
\* a record without one of its fields
Without(rec, f) == [g \in DOMAIN rec \ {f} |-> rec[g]]

\* C25: when a deploy call has sent an update after its create, the spec of the
\* update is the spec of the create (the transport form of the validated spec, which
\* has no name of its own) with the field name added, holding the full service name;
\* every other field is the same in both.
C25_UpdateCarriesCreateSpec ==
    \A c \in DOMAIN calls :
       Len(calls[c].sent) = 2 =>
          /\ calls[c].sent[1].rpc = "createService"
          /\ calls[c].sent[2].rpc = "updateService"
          /\ "name" \notin DOMAIN calls[c].sent[1].service.obj
          /\ Without(calls[c].sent[2].service.obj, "name") = calls[c].sent[1].service.obj
          /\ calls[c].sent[2].service.obj.name = Str(RequestName(calls[c].sent[1]))
          /\ calls[c].sent[1].service = Read(calls[c].h, calls[c].apiSpec)
          /\ SameButTimeout(calls[c].sent[1].service, MergedTree(calls[c]))

\* an update is awaited whose spec has scaling, containers and a converted timeout
C25_Witness ==
    \E c \in DOMAIN calls :
       /\ calls[c].pc = "updateWait"
       /\ Len(calls[c].sent) = 2
       /\ T(Prop(Prop(calls[c].sent[2].service, "template"), "timeout")) = "obj"
       /\ T(Prop(Prop(calls[c].sent[2].service, "template"), "scaling")) = "obj"
       /\ T(Prop(calls[c].sent[2].service, "name")) = "str"


(***************************************************************************)
(* Properties of the range of the duration adapter                         *)
(***************************************************************************)
\* the timeout of a transport spec, as a tree
ShapedTimeout(call) == Prop(Prop(Read(call.h, call.apiSpec), "template"), "timeout")

\* C26: for a timeout given as a text or a number, parseTimeoutToDuration returns
\* seconds >= 0 and nanos from 0 to 999999999; and toApiShape applied to the spec a
\* first toApiShape returned gives a spec equal to it, the Duration being taken as
\* it is.
C26_DurationRangeAndIdempotence ==
    [][\A c \in DOMAIN calls :
          /\ (calls'[c].pc = "parsed" /\ T(calls'[c].options) \in {"str", "num"}) =>
                /\ T(calls'[c].result) = "obj"
                /\ DOMAIN calls'[c].result.obj = {"seconds", "nanos"}
                /\ T(calls'[c].result.obj.seconds) = "num"
                /\ calls'[c].result.obj.seconds.num >= 0
                /\ T(calls'[c].result.obj.nanos) = "num"
                /\ calls'[c].result.obj.nanos.num >= 0
                /\ calls'[c].result.obj.nanos.num <= 999999999
          /\ (calls[c].pc = "shaped" /\ calls'[c].pc = "reshaped") =>
                /\ Read(calls'[c].h, calls'[c].apiSpec) = Read(calls[c].h, calls[c].apiSpec)
                /\ calls'[c].apiSpec # calls[c].apiSpec]_vars

\* a spec whose timeout was converted from -5 was shaped a second time
C26_Witness ==
    \E c \in DOMAIN calls :
       /\ calls[c].pc = "reshaped"
       /\ calls[c].options = Num(-5)
       /\ ShapedTimeout(calls[c]) = Obj([seconds |-> Num(0), nanos |-> Num(0)])


(***************************************************************************)
(* Properties of the purchase transaction                                  *)
(***************************************************************************)
\* the transaction has passed the balance check and not ended yet
Paying(p) == p.pc \in {"debit", "credit", "insertOrder", "commit"}

\* C27: no agent's credits are ever negative, and a purchase that has passed the
\* balance check holds the lock of the buyer's row, read a balance that is still the
\* buyer's balance, and that balance is at least the price of the listing.
C27_CreditsNeverNegative ==
    /\ \A a \in DOMAIN db.credits : db.credits[a] >= 0
    /\ \A t \in DOMAIN purchases :
          Paying(purchases[t]) =>
             /\ db.locks[purchases[t].buyer.id] = t
             /\ db.credits[purchases[t].buyer.id] = purchases[t].buyer.credits
             /\ purchases[t].buyer.credits >= purchases[t].listing.price_credits

\* one buyer started two purchases that each cost the whole balance: one committed,
\* the other was refused for insufficient credits
C27_Witness ==
    \E t, u \in DOMAIN purchases :
       /\ t # u
       /\ purchases[t].buyerId = purchases[u].buyerId
       /\ purchases[t].pc = "committed"
       /\ purchases[t].buyer.credits = purchases[t].listing.price_credits
       /\ purchases[t].listing.price_credits > 0
       /\ purchases[u].pc = "rejected"
       /\ purchases[u].err.class = "ForbiddenError"
       /\ db.credits[purchases[t].buyerId] = 0


\* the sum of the balances of a set of agents
RECURSIVE TotalOf(_, _)
TotalOf(credits, agents) ==
    IF agents = {} THEN 0
    ELSE credits[CHOOSE a \in agents : TRUE]
         + TotalOf(credits, agents \ {CHOOSE a \in agents : TRUE})

Total(credits) == TotalOf(credits, DOMAIN credits)

\* the purchase t ends in this step with the given outcome
Ends(t, outcome) == purchases[t].pc # outcome /\ purchases'[t].pc = outcome

\* C28: every step keeps the sum of all balances; the step that commits a purchase
\* takes the listing price from the buyer, gives it to the seller, who is another
\* agent, leaves every other balance alone and appends one order for that listing,
\* buyer, seller and price; a step that rejects a purchase (listing inactive or
\* missing, own listing, buyer or seller missing, insufficient credits), and any
\* other step, changes no balance and no order; so there are as many orders as
\* committed purchases.
C28_CreditsConserved ==
    [][/\ Total(db'.credits) = Total(db.credits)
       /\ \A t \in DOMAIN purchases :
             /\ Ends(t, "committed") =>
                   /\ purchases[t].buyer.id # purchases[t].seller.id
                   /\ db'.credits[purchases[t].buyer.id] =
                         db.credits[purchases[t].buyer.id]
                            - db.listings[purchases[t].listingId].price_credits
                   /\ db'.credits[purchases[t].seller.id] =
                         db.credits[purchases[t].seller.id]
                            + db.listings[purchases[t].listingId].price_credits
                   /\ \A a \in DOMAIN db.credits \ {purchases[t].buyer.id,
                                                    purchases[t].seller.id} :
                         db'.credits[a] = db.credits[a]
                   /\ db'.orders =
                         Append(db.orders,
                                [listing_id    |-> purchases[t].listingId,
                                 buyer_id      |-> purchases[t].buyerId,
                                 seller_id     |-> db.listings[purchases[t].listingId].agent_id,
                                 price_credits |->
                                     db.listings[purchases[t].listingId].price_credits])
             /\ Ends(t, "rejected") =>
                   /\ purchases'[t].err.class \in
                         {"NotFoundError", "BadRequestError", "ForbiddenError"}
                   /\ db'.credits = db.credits
                   /\ db'.orders = db.orders
       /\ (\A t \in DOMAIN purchases : ~Ends(t, "committed")) =>
             /\ db'.credits = db.credits
             /\ db'.orders = db.orders
       /\ Len(db'.orders) =
             Cardinality({t \in DOMAIN purchases : purchases'[t].pc = "committed"})]_vars

\* one purchase moved a positive price between two agents and left one order, the
\* other was refused as the purchase of the buyer's own listing
C28_Witness ==
    \E t, u \in DOMAIN purchases :
       /\ purchases[t].pc = "committed"
       /\ purchases[t].listing.price_credits > 0
       /\ db.credits[purchases[t].buyer.id] =
             purchases[t].buyer.credits - purchases[t].listing.price_credits
       /\ db.credits[purchases[t].seller.id] =
             purchases[t].seller.credits + purchases[t].listing.price_credits
       /\ Len(db.orders) = 1
       /\ purchases[u].pc = "rejected"
       /\ purchases[u].err.class = "BadRequestError"


\* C29 (as stated): two transactions never wait for each other's row locks, and
\* every purchase that was started eventually commits or is rejected by one of the
\* rules of buyListing.
C29_PurchasesEnd ==
    /\ [](\A t, u \in Purchasers : ~(WaitsFor(t, u) /\ WaitsFor(u, t)))
    /\ \A t \in Purchasers :
          (purchases[t].pc # "idle") ~> (purchases[t].pc \in {"committed", "rejected"})


=============================================================================
